---- MODULE Spec2Model ----
(***************************************************************************)
(* One invocation of AlhambraChecker.check_availability                    *)
(* (src/src/alhambreaker/checker.py) together with the components it       *)
(* drives: the AlhambraBrowser session (browser.py), the CaptchaSolver     *)
(* submit/poll protocol (captcha.py) and the TelegramNotifier              *)
(* (notifier.py).  Texts are sequences of string tokens, so that building  *)
(* an error text is a concatenation and not the identity.  ApiSpec calls   *)
(* the operations of CaptchaSolver, TelegramNotifier and Settings on their *)
(* own, with configurations and arguments the checker never passes.        *)
(***************************************************************************)
EXTENDS Integers, Sequences, FiniteSets, TLC

\* ---------------------------------------------------------------- bounds
MaxDates == 2
MaxDay == 2
CalSpan == 1
MaxTimeout == 14
MaxInterval == 2
MaxPolls == 24
MaxDistance == 13
MaxPairPolls == 1
MaxPairAttempts == 1

\* ------------------------------------------------------ program constants
TargetYear == 2026
TargetMonth == 2
SolverTimeout == 120
PollInterval == 5
WarmUp == 10
MaxAttempts == 12

\* ------------------------------------------------------------------ data
TicketStatus == {"available", "not_available", "last_tickets", "unknown"}

MkDate(y, m, d) == [year |-> y, month |-> m, day |-> d]

NoDate == MkDate(0, 0, 0)

Dates == {MkDate(TargetYear, TargetMonth, d) : d \in 1..MaxDay}

DateAvailability(d, s, l) == [date |-> d, status |-> s, has_link |-> l]

NoAvailability == DateAvailability(NoDate, "unknown", FALSE)

\* error: str | None
NoneStr == [none |-> TRUE, text |-> <<>>]

Str(t) == [none |-> FALSE, text |-> t]

CheckResult(d, s, a, n, e) ==
    [date |-> d, status |-> s, is_available |-> a,
     notification_sent |-> n, error |-> e]

NoResult == [date |-> NoDate, status |-> "none", is_available |-> FALSE,
             notification_sent |-> FALSE, error |-> NoneStr]

\* exceptions: a class name, the tokens of str(e) and, as the traceback
\* does, the call of check_availability that raised it
Exc(t, m) == [type |-> t, msg |-> m, stage |-> ""]

At(e, stage) == [e EXCEPT !.stage = stage]

NoExc == Exc("None", <<>>)

\* the process has not exited
NoExit == 0 - 1

\* Settings as checker.py sees it.  config.Settings defines target_dates
\* (a non-empty list, all of one month) and no attribute target_date; the
\* checker reads settings.target_date, which only an object carrying a
\* single date provides.  headless is config.py line 52.

\* a reply of the solver service that has not been received
NoReply == [http |-> "none", status |-> 0, has_request |-> FALSE,
            request |-> ""]

\* the solver service's side of one solve: the reply to the submit request,
\* the "not ready" answers given, the last poll reply, the task ids polled
NoService == [submit |-> NoReply, not_ready |-> 0, poll |-> NoReply,
              polled |-> {}]

\* a direct call of a component operation: state is "running", "returned"
\* or "raised"; replies are the HTTP replies it has received
Call(op, arg) ==
    [op |-> op, arg |-> arg, state |-> "running", value |-> <<>>,
     exc |-> NoExc, replies |-> <<>>]

NoCall == [op |-> "none", arg |-> <<>>, state |-> "none", value |-> <<>>,
           exc |-> NoExc, replies |-> <<>>]

\* navigate_to_month before its first iteration: nothing read, no call
\* made, and so far nothing has gone wrong with the calendar
NoShown == [read |-> "none", month |-> [year |-> 0, month |-> 0],
            events |-> <<>>, ideal |-> TRUE, reads |-> 0, unreadable |-> 0]

\* no second invocation
NoFrame == [id |-> 0]

RECURSIVE SeqsUpTo(_, _)
SeqsUpTo(S, n) ==
    IF n = 0 THEN {<<>>}
    ELSE LET shorter == SeqsUpTo(S, n - 1)
         IN  shorter \cup {Append(s, x) : s \in shorter, x \in S}

\* variant: only the month numbers are compared
validate_same_month_number(dates) ==
    \A i \in 1..Len(dates) : dates[i].month = dates[1].month

\* config.py lines 40-49
validate_same_month(dates) ==
    \A i \in 1..Len(dates) :
        dates[i].year = dates[1].year /\ dates[i].month = dates[1].month

Settings ==
    {[has_target_date |-> FALSE, target_dates |-> ds, headless |-> TRUE] :
        ds \in {s \in SeqsUpTo(Dates, MaxDates) :
                    Len(s) >= 1 /\ validate_same_month(s)}}

SingleDateSettings ==
    {[has_target_date |-> TRUE, target_dates |-> <<d>>, headless |-> TRUE] :
        d \in Dates}

\* no Settings object
NoSettings ==
    [has_target_date |-> FALSE, target_dates |-> <<>>, headless |-> TRUE]

\* the command line, __main__.py lines 40-54
Args(dry, test, visible) ==
    [dry_run |-> dry, test_telegram |-> test, no_headless |-> visible]

NoArgs == Args(FALSE, FALSE, FALSE)

\* ----------------------------------------------------------------- state
VARIABLES
    settings,      \* the settings object held by the checker
    dry_run,       \* argument of check_availability
    pc,            \* position inside check_availability
    target_date,   \* local target_date (NoDate until read)
    playwright,    \* "none" | "started" | "stopped"
    browser,       \* "none" | "launched" | "closed"
    page,          \* "none" | "open" | "closed"
    opens,         \* number of sessions entered
    steps,         \* pipeline steps invoked so far, in order
    pending,       \* exception in flight or caught (NoExc if none)
    retval,        \* CheckResult computed by the return statement
    availability,  \* scraped DateAvailability
    solver,        \* the CaptchaSolver's timeout and poll_interval
    task_id,       \* captcha task id ("" before submit)
    elapsed,       \* _poll_result's elapsed counter
    polls,         \* poll requests issued
    captcha_token, \* solved token ("" before)
    calendar,      \* month the calendar displays
    attempt,       \* navigate_to_month loop counter
    clicks,        \* navigation clicks performed
    alerts,        \* send-message requests accepted by the messaging API
    result,        \* CheckResult returned to the caller
    raised,        \* exception that escaped check_availability
    service,       \* what the solver service has answered so far
    invoked,       \* a component operation called directly, and its outcome
    requests,      \* HTTP requests issued by directly called operations
    shown,         \* what the last iteration of navigate_to_month read and did
    cached,        \* the Settings instance get_settings() caches
    args,          \* the parsed command line
    exit_code,     \* the process's exit code (NoExit while it runs)
    interrupted,   \* a KeyboardInterrupt ended the process
    other          \* the locals of a second, suspended check_availability

vars == <<settings, dry_run, pc, target_date, playwright, browser, page,
          opens, steps, pending, retval, availability, solver, task_id,
          elapsed, polls, captcha_token, calendar, attempt, clicks,
          alerts, result, raised, service, invoked, requests, shown,
          cached, args, exit_code, interrupted, other>>

browserVars == <<playwright, browser, page, opens>>

captchaVars == <<solver, task_id, elapsed, polls, captcha_token, service>>

mainVars == <<cached, args, exit_code, interrupted, other>>

apiVars == <<invoked, requests, mainVars>>

navVars == <<calendar, attempt, clicks, shown>>

\* CaptchaSolver(api_key): the defaults of captcha.py __init__
CaptchaSolver == [timeout |-> SolverTimeout, poll_interval |-> PollInterval]

\* months the calendar can display: CalSpan months around the target month
MonthIndex(y, m) == y * 12 + (m - 1)

MkMonth(i) == [year |-> i \div 12, month |-> (i % 12) + 1]

CalendarMonths ==
    {MkMonth(i) : i \in (MonthIndex(TargetYear, TargetMonth) - CalSpan)
                        .. (MonthIndex(TargetYear, TargetMonth) + CalSpan)}

Init ==
    /\ settings \in Settings \cup SingleDateSettings
    /\ dry_run \in BOOLEAN
    /\ pc = "start"
    /\ target_date = NoDate
    /\ playwright = "none"
    /\ browser = "none"
    /\ page = "none"
    /\ opens = 0
    /\ steps = <<>>
    /\ pending = NoExc
    /\ retval = NoResult
    /\ availability = NoAvailability
    /\ solver = CaptchaSolver
    /\ task_id = ""
    /\ elapsed = 0
    /\ polls = 0
    /\ captcha_token = ""
    /\ calendar \in CalendarMonths
    /\ attempt = 0
    /\ clicks = 0
    /\ alerts = <<>>
    /\ result = NoResult
    /\ raised = NoExc
    /\ service = NoService
    /\ invoked = NoCall
    /\ requests = <<>>
    /\ shown = NoShown
    /\ cached = NoSettings
    /\ args = NoArgs
    /\ exit_code = NoExit
    /\ interrupted = FALSE
    /\ other = NoFrame

\* ------------------------------------------------- checker.py: helpers
\* variant: LAST_TICKETS left out of the tuple
IsSellableAvailableOnly(status) == status = "available"

\* _should_notify, and the is_available expression of the return statement
IsSellable(status) == status \in {"available", "last_tickets"}

\* the three except clauses of check_availability
ErrorText(e) ==
    IF e.type = "CaptchaError" THEN <<"Captcha error: ">> \o e.msg
    ELSE IF e.type = "NotificationError"
         THEN <<"Notification error: ">> \o e.msg
         ELSE e.msg

\* variant: the error result reports what the scrape had found
ErrorResultKeepsScrape(d, e) ==
    CheckResult(d, availability.status,
                availability.status \in {"available", "last_tickets"},
                FALSE, Str(ErrorText(e)))

ErrorResult(d, e) ==
    CheckResult(d, "unknown", FALSE, FALSE, Str(ErrorText(e)))

\* the return statement at the end of the with-block
SuccessResult(d, avail, sent) ==
    CheckResult(d, avail.status, IsSellable(avail.status), sent, NoneStr)

\* variant: the session is not a scoped resource, an exception skips its
\* release
BodyRaiseSkipsRelease(stage, e) ==
    /\ pending' = At(e, stage)
    /\ pc' = "handle"

\* variant: a failed step is attempted again
BodyRaiseRetries(stage, e) ==
    /\ pending' = At(e, stage)
    /\ pc' = pc

\* an exception raised inside the with-block first runs __aexit__
BodyRaise(stage, e) ==
    /\ pending' = At(e, stage)
    /\ pc' = "aexit_close"

\* an exception raised by __aenter__ reaches the except clauses directly
EnterRaise(e) ==
    /\ pending' = At(e, "__aenter__")
    /\ pc' = "handle"

PlaywrightError(stage) == Exc("PlaywrightError", <<"playwright: ", stage>>)

PlaywrightTimeout(stage) ==
    Exc("PlaywrightTimeout", <<"Timeout exceeded: ", stage>>)

\* ----------------------------------------------- checker.py line 53
ReadTargetDate ==
    /\ pc = "start"
    /\ IF settings.has_target_date
       THEN /\ target_date' = settings.target_dates[1]
            /\ pc' = "aenter_start"
            /\ raised' = raised
       ELSE /\ raised' = Exc("AttributeError",
                             <<"'Settings' object has no attribute ",
                               "target_date">>)
            /\ pc' = "done"
            /\ target_date' = target_date
    /\ UNCHANGED <<apiVars, settings, dry_run, browserVars, steps, pending, retval,
                   availability, captchaVars, navVars, alerts, result>>

\* ----------------------------------------------- browser.py __aenter__
AEnterStart ==
    /\ pc = "aenter_start"
    /\ \E ok \in BOOLEAN :
        IF ok
        THEN /\ playwright' = "started"
             /\ pc' = "aenter_launch"
             /\ pending' = pending
        ELSE /\ EnterRaise(PlaywrightError("start"))
             /\ playwright' = playwright
    /\ UNCHANGED <<apiVars, settings, dry_run, target_date, browser, page, opens,
                   steps, retval, availability, captchaVars, navVars,
                   alerts, result, raised>>

AEnterLaunch ==
    /\ pc = "aenter_launch"
    /\ \E ok \in BOOLEAN :
        IF ok
        THEN /\ browser' = "launched"
             /\ pc' = "aenter_new_page"
             /\ pending' = pending
        ELSE /\ EnterRaise(PlaywrightError("launch"))
             /\ browser' = browser
    /\ UNCHANGED <<apiVars, settings, dry_run, target_date, playwright, page, opens,
                   steps, retval, availability, captchaVars, navVars,
                   alerts, result, raised>>

AEnterNewPage ==
    /\ pc = "aenter_new_page"
    /\ \E ok \in BOOLEAN :
        IF ok
        THEN /\ page' = "open"
             /\ opens' = opens + 1
             /\ pc' = "navigate_to_purchase_page"
             /\ pending' = pending
        ELSE /\ EnterRaise(PlaywrightError("new_page"))
             /\ page' = page
             /\ opens' = opens
    /\ UNCHANGED <<apiVars, settings, dry_run, target_date, playwright, browser,
                   steps, retval, availability, captchaVars, navVars,
                   alerts, result, raised>>

\* ------------------------------------------------ browser.py __aexit__
\* close() of a launched browser also closes its page; when close() raises,
\* stop() is not reached
AExitClose ==
    /\ pc = "aexit_close"
    /\ IF browser = "none"
       THEN /\ pc' = "aexit_stop"
            /\ UNCHANGED <<browser, page, pending, retval>>
       ELSE \E ok \in BOOLEAN :
            IF ok
            THEN /\ browser' = "closed"
                 /\ page' = IF page = "open" THEN "closed" ELSE page
                 /\ pc' = "aexit_stop"
                 /\ UNCHANGED <<pending, retval>>
            ELSE /\ pending' = At(PlaywrightError("close"), "__aexit__")
                 /\ retval' = NoResult
                 /\ pc' = "handle"
                 /\ UNCHANGED <<browser, page>>
    /\ UNCHANGED <<apiVars, settings, dry_run, target_date, playwright, opens, steps,
                   availability, captchaVars, navVars, alerts, result,
                   raised>>

AExitStop ==
    /\ pc = "aexit_stop"
    /\ IF playwright = "none"
       THEN /\ pc' = IF pending = NoExc THEN "return" ELSE "handle"
            /\ UNCHANGED <<playwright, pending, retval>>
       ELSE \E ok \in BOOLEAN :
            IF ok
            THEN /\ playwright' = "stopped"
                 /\ pc' = IF pending = NoExc THEN "return" ELSE "handle"
                 /\ UNCHANGED <<pending, retval>>
            ELSE /\ pending' = At(PlaywrightError("stop"), "__aexit__")
                 /\ retval' = NoResult
                 /\ pc' = "handle"
                 /\ playwright' = playwright
    /\ UNCHANGED <<apiVars, settings, dry_run, target_date, browser, page, opens,
                   steps, availability, captchaVars, navVars, alerts,
                   result, raised>>

\* the with-block was left by the return statement: hand out its value
Return ==
    /\ pc = "return"
    /\ result' = retval
    /\ pc' = "done"
    /\ UNCHANGED <<apiVars, settings, dry_run, target_date, browserVars, steps,
                   pending, retval, availability, captchaVars, navVars,
                   alerts, raised>>

\* checker.py lines 98-124: every exception class used here derives from
\* Exception, so one of the three clauses always matches
Handle ==
    /\ pc = "handle"
    /\ result' = ErrorResult(target_date, pending)
    /\ pc' = "done"
    /\ UNCHANGED <<apiVars, settings, dry_run, target_date, browserVars, steps,
                   pending, retval, availability, captchaVars, navVars, alerts,
                   raised>>

Step(name) == steps' = Append(steps, name)

\* --------------------------- browser.py navigate_to_purchase_page 95-108
\* goto: "ok" | "error"; sel: "found" | "timeout" | "error";
\* idle (the second network-idle wait): "ok" | "timeout"
\* variant: the wait for the proceed control is not guarded
NavigateOutcomeTimeoutFatal(goto, sel, idle) ==
    IF goto # "ok" THEN PlaywrightError("goto")
    ELSE IF sel = "found" THEN NoExc
         ELSE IF sel = "timeout" THEN PlaywrightTimeout("wait_for_selector")
              ELSE PlaywrightError("wait_for_selector")

\* lines 98-108: the page calls made, in order
NavigateCalls(goto, sel, idle) ==
    IF goto # "ok" THEN <<"goto">>
    ELSE IF sel = "timeout"
         THEN <<"goto", "wait_for_selector", "networkidle">>
         ELSE <<"goto", "wait_for_selector">>

NavigateOutcome(goto, sel, idle) ==
    IF goto # "ok" THEN PlaywrightError("goto")
    ELSE IF sel = "found" THEN NoExc
    ELSE IF sel = "timeout"
         THEN IF idle = "ok" THEN NoExc
              ELSE PlaywrightTimeout("wait_for_load_state")
         ELSE PlaywrightError("wait_for_selector")

NavigateToPurchasePage ==
    /\ pc = "navigate_to_purchase_page"
    /\ Step("navigate_to_purchase_page")
    /\ \E goto \in {"ok", "error"}, sel \in {"found", "timeout", "error"},
          idle \in {"ok", "timeout"} :
        LET e == NavigateOutcome(goto, sel, idle)
        IN  IF e = NoExc
            THEN pc' = "accept_cookies" /\ pending' = pending
            ELSE BodyRaise("navigate_to_purchase_page", e)
    /\ UNCHANGED <<apiVars, settings, dry_run, target_date, browserVars, retval,
                   availability, captchaVars, navVars, alerts, result,
                   raised>>

\* -------------------------------------- browser.py accept_cookies 110-120
\* visible: "visible" | "hidden" | "timeout" | "error";
\* click: "ok" | "timeout" | "error".  Only PlaywrightTimeout is absorbed.
\* variant: without the try, a timeout of the visibility wait is raised
AcceptCookiesOutcomeUnguarded(visible, click) ==
    IF visible = "error" THEN PlaywrightError("is_visible")
    ELSE IF visible = "timeout" THEN PlaywrightTimeout("is_visible")
         ELSE IF visible = "visible" /\ click = "error"
              THEN PlaywrightError("click")
              ELSE IF visible = "visible" /\ click = "timeout"
                   THEN PlaywrightTimeout("click")
                   ELSE NoExc

\* lines 112-118: the page calls made, in order
AcceptCookiesCalls(visible, click) ==
    IF visible = "visible" THEN <<"is_visible", "click">>
    ELSE <<"is_visible">>

AcceptCookiesOutcome(visible, click) ==
    IF visible = "error" THEN PlaywrightError("is_visible")
    ELSE IF visible = "visible" /\ click = "error"
         THEN PlaywrightError("click")
         ELSE NoExc

AcceptCookies ==
    /\ pc = "accept_cookies"
    /\ Step("accept_cookies")
    /\ \E visible \in {"visible", "hidden", "timeout", "error"},
          click \in {"ok", "timeout", "error"} :
        LET e == AcceptCookiesOutcome(visible, click)
        IN  IF e = NoExc
            THEN pc' = "get_page_url" /\ pending' = pending
            ELSE BodyRaise("accept_cookies", e)
    /\ UNCHANGED <<apiVars, settings, dry_run, target_date, browserVars, retval,
                   availability, captchaVars, navVars, alerts, result,
                   raised>>

\* ----------------------------------------- browser.py get_page_url 388-390
GetPageUrl ==
    /\ pc = "get_page_url"
    /\ Step("get_page_url")
    /\ pc' = "solve_recaptcha"
    /\ UNCHANGED <<apiVars, settings, dry_run, target_date, browserVars, pending,
                   retval, availability, captchaVars, navVars, alerts,
                   result, raised>>

\* ------------------------------------------------------------ captcha.py
\* A reply of the solver service: http is "ok", "status_error" (an HTTP
\* error status, raise_for_status raises), "connect_error" or "read_timeout"
\* (transport failures; str() of a read timeout is empty); the JSON body
\* carries status and, when has_request, the request field.
Reply(http, status, has_request, request) ==
    [http |-> http, status |-> status, has_request |-> has_request,
     request |-> request]

FailedReplies ==
    {Reply("status_error", 0, FALSE, ""),
     Reply("connect_error", 0, FALSE, ""),
     Reply("read_timeout", 0, FALSE, "")}

SubmitReplies ==
    FailedReplies \cup
    {Reply("ok", 0, TRUE, "ERROR_WRONG_USER_KEY"),
     Reply("ok", 0, FALSE, ""),
     Reply("ok", 1, TRUE, "task-1"),
     Reply("ok", 1, FALSE, "")}

PollReplies ==
    FailedReplies \cup
    {Reply("ok", 0, TRUE, "CAPCHA_NOT_READY"),
     Reply("ok", 0, TRUE, "ERROR_CAPTCHA_UNSOLVABLE"),
     Reply("ok", 0, TRUE, "CAPTCHA_NOT_READY"),
     Reply("ok", 0, FALSE, ""),
     Reply("ok", 1, TRUE, "token-1"),
     Reply("ok", 1, FALSE, "")}

\* client.get followed by response.raise_for_status()
HttpFailure(r) ==
    IF r.http = "status_error"
    THEN Exc("HTTPStatusError", <<"Server error for url">>)
    ELSE IF r.http = "connect_error"
         THEN Exc("ConnectError", <<"All connection attempts failed">>)
         ELSE IF r.http = "read_timeout" THEN Exc("ReadTimeout", <<>>)
              ELSE NoExc

CaptchaError(m) == Exc("CaptchaError", m)

\* data.get("request", default)
GetRequest(r, default) == IF r.has_request THEN r.request ELSE default

\* variant: whatever the reply carries as "request" is taken as the task id
SubmitOutcomeIgnoresStatus(r) ==
    IF HttpFailure(r) # NoExc THEN [exc |-> HttpFailure(r), value |-> ""]
    ELSE IF r.has_request
         THEN [exc |-> NoExc, value |-> r.request]
         ELSE [exc |-> CaptchaError(<<"Failed to submit captcha task: ",
                                      "Unknown error">>),
               value |-> ""]

\* _submit_task, lines 74-91: the exception raised (NoExc if none) and the
\* task id returned
SubmitOutcome(r) ==
    IF HttpFailure(r) # NoExc THEN [exc |-> HttpFailure(r), value |-> ""]
    ELSE IF r.status # 1
         THEN [exc |-> CaptchaError(<<"Failed to submit captcha task: ",
                                      GetRequest(r, "Unknown error")>>),
               value |-> ""]
         ELSE IF r.has_request
              THEN [exc |-> NoExc, value |-> r.request]
              ELSE [exc |-> Exc("KeyError", <<"'request'">>), value |-> ""]

\* variant: a successful poll returns the status field
PollOutcomeReturnsStatus(r) ==
    IF HttpFailure(r) # NoExc
    THEN [kind |-> "raise", exc |-> HttpFailure(r), value |-> ""]
    ELSE IF r.status = 1
         THEN [kind |-> "return", exc |-> NoExc, value |-> ToString(r.status)]
         ELSE IF GetRequest(r, "") = "CAPCHA_NOT_READY"
              THEN [kind |-> "retry", exc |-> NoExc, value |-> ""]
              ELSE [kind |-> "raise",
                    exc |-> CaptchaError(<<"Captcha solving failed: ",
                                           GetRequest(r, "")>>),
                    value |-> ""]

\* variant: every answer that is not a success is polled again
PollOutcomeRetriesOnError(r) ==
    IF HttpFailure(r) # NoExc
    THEN [kind |-> "raise", exc |-> HttpFailure(r), value |-> ""]
    ELSE IF r.status = 1
         THEN IF r.has_request
              THEN [kind |-> "return", exc |-> NoExc, value |-> r.request]
              ELSE [kind |-> "raise", exc |-> Exc("KeyError", <<"'request'">>),
                    value |-> ""]
         ELSE [kind |-> "retry", exc |-> NoExc, value |-> ""]

\* one iteration of the loop of _poll_result, lines 112-133: kind is
\* "return", "retry" or "raise"
PollOutcome(r) ==
    IF HttpFailure(r) # NoExc
    THEN [kind |-> "raise", exc |-> HttpFailure(r), value |-> ""]
    ELSE IF r.status = 1
         THEN IF r.has_request
              THEN [kind |-> "return", exc |-> NoExc, value |-> r.request]
              ELSE [kind |-> "raise", exc |-> Exc("KeyError", <<"'request'">>),
                    value |-> ""]
         ELSE IF GetRequest(r, "") = "CAPCHA_NOT_READY"
              THEN [kind |-> "retry", exc |-> NoExc, value |-> ""]
              ELSE [kind |-> "raise",
                    exc |-> CaptchaError(<<"Captcha solving failed: ",
                                           GetRequest(r, "")>>),
                    value |-> ""]

\* solve_recaptcha, line 49
SubmitTask ==
    /\ pc = "solve_recaptcha"
    /\ Step("solve_recaptcha")
    /\ \E r \in SubmitReplies :
        LET o == SubmitOutcome(r)
        IN  IF o.exc = NoExc
            THEN /\ task_id' = o.value
                 /\ pc' = "poll_warmup"
                 /\ pending' = pending
                 /\ service' = [service EXCEPT !.submit = r]
            ELSE /\ BodyRaise("solve_recaptcha", o.exc)
                 /\ task_id' = task_id
                 /\ service' = [service EXCEPT !.submit = r]
    /\ UNCHANGED <<apiVars, settings, dry_run, target_date, browserVars, retval,
                   availability, solver, elapsed, polls, captcha_token,
                   navVars, alerts, result, raised>>

\* _poll_result, lines 106-109
PollWarmUp ==
    /\ pc = "poll_warmup"
    /\ elapsed' = 0 + WarmUp
    /\ pc' = "poll_loop"
    /\ UNCHANGED <<apiVars, settings, dry_run, target_date, browserVars, steps,
                   pending, retval, availability, solver, task_id, polls,
                   captcha_token, service, navVars, alerts, result, raised>>

\* polls and not_ready only count requests, the code keeps neither: they
\* stop counting at MaxPolls.  With poll_interval 0 a "not ready" poll then
\* leaves every variable as it was, as it leaves elapsed in the code.
Count(n) == IF n < MaxPolls THEN n + 1 ELSE n

\* the service's side of one poll request answered with r
Served(r) ==
    [service EXCEPT
        !.poll = r,
        !.polled = @ \cup {task_id},
        !.not_ready = IF r.http = "ok" /\ r.status # 1 /\ r.has_request
                         /\ r.request = "CAPCHA_NOT_READY"
                      THEN Count(@) ELSE @]

\* variant: the loop goes on while elapsed has not passed the timeout
WithinTimeoutInclusive(e, t) == e <= t

\* _poll_result, line 111: while elapsed < self.timeout
WithinTimeout(e, t) == e < t

\* _poll_result, lines 111-133: one iteration, the service answering r
PollReply(r) ==
    /\ pc = "poll_loop"
    /\ WithinTimeout(elapsed, solver.timeout)
    /\ polls' = Count(polls)
    /\ service' = Served(r)
    /\ LET o == PollOutcome(r)
       IN  CASE o.kind = "return" ->
                  /\ captcha_token' = o.value
                  /\ pc' = "inject_captcha_token"
                  /\ UNCHANGED <<elapsed, pending>>
             [] o.kind = "retry" ->
                  /\ elapsed' = elapsed + solver.poll_interval
                  /\ UNCHANGED <<pc, captcha_token, pending>>
             [] OTHER ->
                  /\ BodyRaise("solve_recaptcha", o.exc)
                  /\ UNCHANGED <<elapsed, captcha_token>>
    /\ UNCHANGED <<apiVars, settings, dry_run, target_date, browserVars, steps,
                   retval, availability, solver, task_id, navVars, alerts,
                   result, raised>>

PollResult == \E r \in PollReplies : PollReply(r)

\* _poll_result, line 135
PollTimeout ==
    /\ pc = "poll_loop"
    /\ ~WithinTimeout(elapsed, solver.timeout)
    /\ BodyRaise("solve_recaptcha",
                 CaptchaError(<<"Captcha solving timed out after ",
                                ToString(solver.timeout), "s">>))
    /\ UNCHANGED <<apiVars, settings, dry_run, target_date, browserVars, steps,
                   retval, availability, captchaVars, navVars, alerts,
                   result, raised>>

\* ------------------------------- browser.py inject_captcha_token 122-205
\* the integration points the script of lines 132-201 writes to, in its
\* order: the response textareas, the widget's iframe, the grecaptcha
\* object, the ___grecaptcha_cfg clients, the window callbacks, the hidden
\* captcha input
Points == <<"textarea", "iframe", "widget", "clients", "callback", "hidden">>

\* the points the script touches inside try { } catch (e) {}: the iframe's
\* document (lines 144-148) and the calls of callbacks (lines 170, 184)
Guarded == {"iframe", "callback"}

\* a point is absent, present, or present and throwing when touched (a
\* cross-origin iframe, a callback that throws, a widget object that is
\* null or whose accessor throws); DOM fields do not throw
PointKinds(pt) ==
    IF pt \in {"textarea", "hidden"} THEN {"absent", "present"}
    ELSE {"absent", "present", "throws"}

PointNames == {Points[i] : i \in 1..Len(Points)}

Pages ==
    {[pt \in PointNames |-> [kind |-> k[pt], value |-> ""]] :
        k \in {f \in [PointNames -> {"absent", "present", "throws"}] :
                  \A pt \in PointNames : f[pt] \in PointKinds(pt)}}

\* the script from its i-th point on: an absent point is skipped by its
\* test, a present one receives the token, an exception inside a try is
\* dropped, and any other exception ends the script and leaves evaluate
RECURSIVE InjectFrom(_, _, _)
InjectFrom(i, dom, token) ==
    IF i > Len(Points) THEN [page |-> dom, exc |-> NoExc]
    ELSE LET pt == Points[i]
         IN  IF dom[pt].kind = "absent" THEN InjectFrom(i + 1, dom, token)
             ELSE IF dom[pt].kind = "present"
                  THEN InjectFrom(i + 1,
                                  [dom EXCEPT ![pt].value = token], token)
                  ELSE IF pt \in Guarded
                       THEN InjectFrom(i + 1, dom, token)
                       ELSE [page |-> dom,
                             exc |-> Exc("PlaywrightError",
                                         <<"TypeError: ", pt>>)]

\* inject_captcha_token called times times with the same token
RECURSIVE InjectTimes(_, _, _)
InjectTimes(times, dom, token) ==
    IF times = 0 THEN [page |-> dom, exc |-> NoExc]
    ELSE LET o == InjectFrom(1, dom, token)
         IN  IF o.exc # NoExc THEN o
             ELSE InjectTimes(times - 1, o.page, token)

InjectCaptchaToken ==
    /\ pc = "inject_captcha_token"
    /\ Step("inject_captcha_token")
    /\ \E evaluate \in {"ok", "error"} :
        IF evaluate = "ok"
        THEN pc' = "click_go_to_step1" /\ pending' = pending
        ELSE BodyRaise("inject_captcha_token", PlaywrightError("evaluate"))
    /\ UNCHANGED <<apiVars, settings, dry_run, target_date, browserVars, retval,
                   availability, captchaVars, navVars, alerts, result,
                   raised>>

\* ---------------------------------- browser.py click_go_to_step1 207-215
ClickOutcome(click, table) ==
    IF click # "ok" THEN PlaywrightTimeout("click")
    ELSE IF table # "ok" THEN PlaywrightTimeout("wait_for_selector table")
         ELSE NoExc

ClickGoToStep1 ==
    /\ pc = "click_go_to_step1"
    /\ Step("click_go_to_step1")
    /\ \E click \in {"ok", "timeout"}, table \in {"ok", "timeout"} :
        LET e == ClickOutcome(click, table)
        IN  IF e = NoExc
            THEN pc' = "navigate_to_month" /\ pending' = pending
            ELSE BodyRaise("click_go_to_step1", e)
    /\ UNCHANGED <<apiVars, settings, dry_run, target_date, browserVars, retval,
                   availability, captchaVars, navVars, alerts, result,
                   raised>>

\* ---------------------------------- browser.py navigate_to_month 217-252
\* variant: the month numbers alone are compared
MonthAfterByNumber(a, b) == a.month > b.month

\* tuple comparison (year, month) > (year, month), line 242
MonthAfter(a, b) ==
    a.year > b.year \/ (a.year = b.year /\ a.month > b.month)

\* variant: the month numbers alone are compared
SameMonthNumber(a, b) == a.month = b.month

\* line 237
SameMonth(a, b) == a.year = b.year /\ a.month = b.month

NextMonth(c) == MkMonth(MonthIndex(c.year, c.month) + 1)

PrevMonth(c) == MkMonth(MonthIndex(c.year, c.month) - 1)

\* the month shown after a navigation click that found its link: the site
\* moves one month in the clicked direction
Clicked(c, forward) == IF forward THEN NextMonth(c) ELSE PrevMonth(c)

\* variant: the settle delay of line 250 is left out
ClickEventsNoSettle(forward, click) ==
    LET control == IF forward THEN "click_next" ELSE "click_prev"
    IN  IF click = "evaluate_error" THEN <<control>>
        ELSE IF click = "idle_timeout" THEN <<control, "networkidle_timeout">>
             ELSE <<control, "networkidle">>

\* lines 242-250 with _click_next_month / _click_prev_month (292-340): the
\* calls made after the read, in order.  The evaluate call clicks the
\* control, then the network-idle wait, then the settle delay of 2000 ms
ClickEvents(forward, click) ==
    LET control == IF forward THEN "click_next" ELSE "click_prev"
    IN  IF click = "evaluate_error" THEN <<control>>
        ELSE IF click = "idle_timeout" THEN <<control, "networkidle_timeout">>
             ELSE <<control, "networkidle", "settle">>

\* lines 227-250: the calls of one iteration, in order
IterationEvents(read, same, forward, click) ==
    IF read = "error" THEN <<"read">>
    ELSE IF read = "none" THEN <<"read", "wait_1000">>
         ELSE IF same THEN <<"read">>
              ELSE <<"read">> \o ClickEvents(forward, click)

\* variant: an unreadable month is read again within the same attempt
AfterUnreadableSameAttempt(n) == n

\* lines 229-232: after wait_for_timeout(1000), continue moves the for
\* loop on to its next attempt
AfterUnreadable(n) == n + 1

\* one iteration of the for loop.  read: "ok" | "none" | "error";
\* click: "moved" (link found and clicked), "not_found" (no navigation link),
\* "evaluate_error", "idle_timeout" (clicked, the network-idle wait fails)
NavigateToMonth ==
    /\ pc = "navigate_to_month"
    /\ attempt < MaxAttempts
    /\ steps' = IF attempt = 0 THEN Append(steps, "navigate_to_month")
                ELSE steps
    /\ \E read \in {"ok", "none", "error"},
          click \in {"moved", "not_found", "evaluate_error", "idle_timeout"} :
        LET same == SameMonth(calendar, target_date)
            forward == MonthAfter(target_date, calendar)
        IN
        /\ shown' =
              [read |-> read,
               month |-> IF read = "ok" THEN calendar ELSE NoShown.month,
               events |-> IterationEvents(read, same, forward, click),
               ideal |-> shown.ideal /\ read = "ok"
                             /\ (same \/ click = "moved"),
               reads |-> shown.reads + 1,
               unreadable |-> IF read = "none" THEN shown.unreadable + 1
                              ELSE shown.unreadable]
        /\ IF read = "error"
           THEN /\ BodyRaise("navigate_to_month", PlaywrightError("content"))
                /\ UNCHANGED <<calendar, attempt, clicks>>
           ELSE IF read = "none"
           THEN /\ attempt' = AfterUnreadable(attempt)
                /\ UNCHANGED <<pc, pending, calendar, clicks>>
           ELSE IF same
           THEN /\ pc' = "check_date_availability"
                /\ UNCHANGED <<pending, calendar, attempt, clicks>>
           ELSE CASE click = "moved" ->
                       /\ calendar' = Clicked(calendar, forward)
                       /\ clicks' = clicks + 1
                       /\ attempt' = attempt + 1
                       /\ UNCHANGED <<pc, pending>>
                  [] click = "not_found" ->
                       /\ attempt' = attempt + 1
                       /\ UNCHANGED <<pc, pending, calendar, clicks>>
                  [] click = "evaluate_error" ->
                       /\ BodyRaise("navigate_to_month",
                                    PlaywrightError("evaluate"))
                       /\ UNCHANGED <<calendar, attempt, clicks>>
                  [] OTHER ->
                       /\ calendar' = Clicked(calendar, forward)
                       /\ clicks' = clicks + 1
                       /\ BodyRaise("navigate_to_month",
                                    PlaywrightTimeout("wait_for_load_state"))
                       /\ attempt' = attempt
    /\ UNCHANGED <<apiVars, settings, dry_run, target_date, browserVars, retval,
                   availability, captchaVars, alerts, result, raised>>

\* line 252
NavigateExhausted ==
    /\ pc = "navigate_to_month"
    /\ ~(attempt < MaxAttempts)
    /\ BodyRaise("navigate_to_month",
                 Exc("RuntimeError",
                     <<"Could not navigate to ", ToString(target_date.year),
                       "-", ToString(target_date.month)>>))
    /\ UNCHANGED <<apiVars, settings, dry_run, target_date, browserVars, steps,
                   retval, availability, captchaVars, navVars, alerts,
                   result, raised>>

\* ---------------------------- browser.py check_date_availability 342-386
\* count: the day-link locator's count(), "0" | "1" | "error";
\* class: the cell's class attribute, "none" when absent, "error" when
\* reading it raises
Cells ==
    {[count |-> c, class |-> k] :
        c \in {"0", "1", "error"},
        k \in {"none", "day", "last", "dia-Ultimo", "error"}}

\* variant: the class is matched as written, without lower()
HasLastMarkerAsWritten(class) == class \in {"last"}

\* line 365: "last" or "ultimo" in cell_class.lower()
HasLastMarker(class) == class \in {"last", "dia-Ultimo"}

ClassifyCell(d, cell) ==
    IF cell.count = "error" THEN DateAvailability(d, "unknown", FALSE)
    ELSE IF cell.count = "1"
         THEN IF cell.class = "error"
              THEN DateAvailability(d, "unknown", FALSE)
              ELSE IF HasLastMarker(cell.class)
                   THEN DateAvailability(d, "last_tickets", TRUE)
                   ELSE DateAvailability(d, "available", TRUE)
         ELSE DateAvailability(d, "not_available", FALSE)

\* variant: the class attribute is read after the try block has ended
InspectOutcomeClassOutsideTry(d, cell) ==
    IF cell.count = "1" /\ cell.class = "error"
    THEN [exc |-> PlaywrightError("get_attribute"), value |-> NoAvailability]
    ELSE [exc |-> NoExc, value |-> ClassifyCell(d, cell)]

\* variant: the try of line 357 begins after the count() call
InspectOutcomeCountOutsideTry(d, cell) ==
    IF cell.count = "error"
    THEN [exc |-> PlaywrightError("count"), value |-> NoAvailability]
    ELSE [exc |-> NoExc, value |-> ClassifyCell(d, cell)]

\* check_date_availability, lines 357-386: count() and get_attribute() are
\* inside the try, and except Exception catches whatever they raise
InspectOutcome(d, cell) == [exc |-> NoExc, value |-> ClassifyCell(d, cell)]

CheckDateAvailability ==
    /\ pc = "check_date_availability"
    /\ Step("check_date_availability")
    /\ \E cell \in Cells :
        LET o == InspectOutcome(target_date, cell)
        IN  IF o.exc # NoExc
            THEN /\ BodyRaise("check_date_availability", o.exc)
                 /\ availability' = availability
            ELSE /\ availability' = o.value
                 /\ pc' = "notify"
                 /\ pending' = pending
    /\ UNCHANGED <<apiVars, settings, dry_run, target_date, browserVars,
                   retval, captchaVars, navVars, alerts, result, raised>>

\* -------------------------------------------- checker.py lines 82-96
\* variant: every status but NOT_AVAILABLE is worth an alert
ShouldNotifyUnlessSoldOut(avail) == avail.status # "not_available"

ShouldNotify(avail) == IsSellable(avail.status)

\* _send_notification, lines 146-155: the keyword arguments of its call
StatusText(status) ==
    IF status = "available" THEN "Available" ELSE "Last Tickets!"

TicketType == "GENERAL"

NotificationCall(avail) ==
    <<[name |-> "target_date", value |-> <<avail>>],
      [name |-> "status", value |-> <<StatusText(avail.status)>>],
      [name |-> "ticket_type", value |-> <<TicketType>>]>>

\* notifier.py lines 38-42: the parameters of send_availability_alert
AlertParams == {"available_dates", "ticket_type"}

AlertRequired == {"available_dates"}

KeywordNames(call) == {call[i].name : i \in 1..Len(call)}

\* Python binds a keyword call: the first keyword that names no parameter,
\* or a required parameter left without a value, is a TypeError
BindCall(call, params, required) ==
    LET bad == {i \in 1..Len(call) : call[i].name \notin params}
        first == CHOOSE i \in bad : \A j \in bad : i <= j
    IN  IF bad # {}
        THEN Exc("TypeError",
                 <<"send_availability_alert() got an unexpected keyword argument ",
                   call[first].name>>)
        ELSE IF ~(required \subseteq KeywordNames(call))
             THEN Exc("TypeError",
                      <<"send_availability_alert() missing required argument">>)
             ELSE NoExc

Argument(call, name) ==
    (CHOOSE i \in 1..Len(call) : call[i].name = name).value

\* "%02d"
Pad2(n) == IF n < 10 THEN <<"0", ToString(n)>> ELSE <<ToString(n)>>

\* date.strftime("%Y-%m-%d")
StrfTime(d) ==
    <<ToString(d.year), "-">> \o Pad2(d.month) \o <<"-">> \o Pad2(d.day)

\* variant: each line is put in front of the lines built so far
RECURSIVE DatesLinesNewestFirst(_)
DatesLinesNewestFirst(available_dates) ==
    IF available_dates = <<>> THEN <<>>
    ELSE DatesLinesNewestFirst(Tail(available_dates))
         \o <<[date |-> StrfTime(Head(available_dates).date),
                label |-> StatusText(Head(available_dates).status)]>>

\* notifier.py lines 59-67: one line per date of the list
RECURSIVE DatesLines(_)
DatesLines(available_dates) ==
    IF available_dates = <<>> THEN <<>>
    ELSE <<[date |-> StrfTime(Head(available_dates).date),
            label |-> StatusText(Head(available_dates).status)]>>
         \o DatesLines(Tail(available_dates))

\* a reply of the messaging API: the request failed in transport (http), or
\* a response arrived with a status code and a body that is JSON or not
ApiReply(http, code, json, ok, has_description) ==
    [http |-> http, code |-> code, json |-> json, ok |-> ok,
     has_description |-> has_description,
     description |-> "Bad Request: chat not found"]

ApiReplies ==
    {ApiReply("ok", c, TRUE, o, h) : c \in {200, 400}, o \in BOOLEAN,
                                     h \in BOOLEAN}
    \cup {ApiReply("ok", c, FALSE, FALSE, FALSE) : c \in {200, 502}}
    \cup {ApiReply(f, 0, FALSE, FALSE, FALSE) :
              f \in {"connect_error", "read_timeout"}}

\* client.post / client.get without raise_for_status: only the transport
\* can make the request itself raise
TransportFailure(r) ==
    IF r.http \in {"connect_error", "read_timeout"} THEN HttpFailure(r)
    ELSE NoExc

NotificationError(m) == Exc("NotificationError", m)

\* response.json(): a body that is not JSON raises a ValueError
JsonFailure(api) ==
    IF api.json THEN NoExc
    ELSE Exc("JSONDecodeError", <<"Expecting value">>)

\* data.get("description", "Unknown error")
GetDescription(api) ==
    IF api.has_description THEN api.description ELSE "Unknown error"

\* variant: only the body's ok flag decides, the status code is not looked at
SendMessageOutcomeBodyOnly(api) ==
    IF TransportFailure(api) # NoExc THEN TransportFailure(api)
    ELSE IF JsonFailure(api) # NoExc THEN JsonFailure(api)
         ELSE IF ~api.ok
              THEN NotificationError(<<"Telegram API error: ",
                                       GetDescription(api)>>)
              ELSE NoExc

\* _send_message, lines 125-145: the exception raised (NoExc if none)
SendMessageOutcome(api) ==
    IF TransportFailure(api) # NoExc THEN TransportFailure(api)
    ELSE IF api.code # 200
         THEN IF api.json
              THEN NotificationError(<<"Telegram API error: ",
                                       GetDescription(api)>>)
              ELSE NotificationError(<<"Telegram API error: ", "HTTP ",
                                       ToString(api.code)>>)
         ELSE IF JsonFailure(api) # NoExc THEN JsonFailure(api)
              ELSE IF ~api.ok
                   THEN NotificationError(<<"Telegram API error: ",
                                            GetDescription(api)>>)
                   ELSE NoExc

SendNotification ==
    /\ pc = "notify"
    /\ ShouldNotify(availability) /\ ~dry_run
    /\ Step("send_notification")
    /\ LET call == NotificationCall(availability)
           bind == BindCall(call, AlertParams, AlertRequired)
       IN  IF bind # NoExc
           THEN /\ BodyRaise("send_notification", bind)
                /\ UNCHANGED <<alerts, retval>>
           ELSE \E api \in ApiReplies :
                LET e == SendMessageOutcome(api)
                IN  IF e # NoExc
                    THEN /\ BodyRaise("send_notification", e)
                         /\ UNCHANGED <<alerts, retval>>
                    ELSE /\ alerts' = Append(alerts,
                                DatesLines(Argument(call, "available_dates")))
                         /\ retval' = SuccessResult(target_date,
                                                    availability, TRUE)
                         /\ pc' = "aexit_close"
                         /\ pending' = pending
    /\ UNCHANGED <<apiVars, settings, dry_run, target_date, browserVars,
                   availability, captchaVars, navVars, result, raised>>

SkipNotification ==
    /\ pc = "notify"
    /\ ~(ShouldNotify(availability) /\ ~dry_run)
    /\ retval' = SuccessResult(target_date, availability, FALSE)
    /\ pc' = "aexit_close"
    /\ UNCHANGED <<apiVars, settings, dry_run, target_date, browserVars, steps,
                   pending, availability, captchaVars, navVars, alerts,
                   result, raised>>

\* ------------------------------- component operations called directly
\* CaptchaSolver(api_key, timeout, poll_interval): captcha.py lines 22-32
SolverConfigs ==
    {CaptchaSolver} \cup
    {[timeout |-> t, poll_interval |-> p] :
        t \in 0..MaxTimeout, p \in 0..MaxInterval}

NotReady == Reply("ok", 0, TRUE, "CAPCHA_NOT_READY")

\* lists a caller can pass to send_availability_alert
Availabilities ==
    {DateAvailability(d, s, IsSellable(s)) : d \in Dates, s \in TicketStatus}

ErrorMessages == {<<>>, <<"Captcha error: ", "ERROR_ZERO_BALANCE">>}

\* TARGET_DATES: comma-separated items; an item is the text of a date,
\* possibly padded with blanks, or a text that is no ISO date
RawItem(d, padded, iso) ==
    [year |-> d.year, month |-> d.month, day |-> d.day, padded |-> padded,
     iso |-> iso]

RawItems ==
    {RawItem(MkDate(y, m, d), p, TRUE) :
        y \in {TargetYear, TargetYear + 1},
        m \in {TargetMonth, TargetMonth + 1},
        d \in 1..MaxDay, p \in BOOLEAN}
    \cup {RawItem(NoDate, FALSE, FALSE)}

\* str.split(",") never returns an empty list
RawLists == {l \in SeqsUpTo(RawItems, MaxDates) : Len(l) >= 1}

\* navigate_to_month(target_date) on a calendar that first displays a month
\* up to MaxDistance months before or after the target's
Navigations ==
    {[target_date |-> d,
      calendar |-> MkMonth(MonthIndex(d.year, d.month) + k)] :
        d \in Dates, k \in (0 - MaxDistance)..MaxDistance}

\* keyword arguments given to CaptchaSolver next to api_key: the ones of
\* test_captcha.py lines 13-22, with and without max_retries
Kw(name, value) == [name |-> name, value |-> value]

SolverKwargs ==
    {{}, {Kw("timeout", 60), Kw("poll_interval", 3)},
     {Kw("timeout", 60), Kw("poll_interval", 3), Kw("max_retries", 5)},
     {Kw("max_retries", 5)}}

ApiCalls ==
    {Call("solve_recaptcha", c) : c \in SolverConfigs}
    \cup {Call("report_bad", "task-1")}
    \cup {Call("send_availability_alert", l) :
             l \in SeqsUpTo(Availabilities, MaxDates)}
    \cup {Call("send_error_alert", m) : m \in ErrorMessages}
    \cup {Call("test_connection", <<>>)}
    \cup {Call("Settings", l) : l \in RawLists}
    \cup {Call("navigate_to_month", n) : n \in Navigations}
    \cup {Call("check_date_availability", l) :
             l \in {q \in SeqsUpTo(Dates, MaxDates) : Len(q) >= 1}}
    \cup {Call("CaptchaSolver", k) : k \in SolverKwargs}
    \cup {Call("navigate_to_purchase_page", <<>>),
          Call("accept_cookies", <<>>)}
    \cup {Call("inject_captcha_token", [page |-> d, times |-> n]) :
             d \in Pages, n \in 1..2}

\* operations of the browser called on an open page
BrowserOps ==
    {"navigate_to_purchase_page", "accept_cookies", "inject_captcha_token"}

ApiInit ==
    /\ invoked \in ApiCalls
    /\ pc = IF invoked.op = "check_date_availability" THEN "check_dates"
            ELSE IF invoked.op \in BrowserOps THEN "browser_call"
                 ELSE invoked.op
    /\ solver = IF invoked.op = "solve_recaptcha" THEN invoked.arg
                ELSE CaptchaSolver
    /\ settings = NoSettings
    /\ dry_run = FALSE
    /\ target_date = IF invoked.op = "navigate_to_month"
                     THEN invoked.arg.target_date ELSE NoDate
    /\ playwright = "none"
    /\ browser = "none"
    /\ page = "none"
    /\ opens = 0
    /\ steps = <<>>
    /\ pending = NoExc
    /\ retval = NoResult
    /\ availability = NoAvailability
    /\ task_id = ""
    /\ elapsed = 0
    /\ polls = 0
    /\ captcha_token = ""
    /\ calendar = IF invoked.op = "navigate_to_month"
                  THEN invoked.arg.calendar
                  ELSE MkMonth(MonthIndex(TargetYear, TargetMonth))
    /\ attempt = 0
    /\ clicks = 0
    /\ alerts = <<>>
    /\ result = NoResult
    /\ raised = NoExc
    /\ service = NoService
    /\ requests = <<>>
    /\ shown = NoShown
    /\ cached = NoSettings
    /\ args = NoArgs
    /\ exit_code = NoExit
    /\ interrupted = FALSE
    /\ other = NoFrame

Request(endpoint, body) == [endpoint |-> endpoint, body |-> body]

\* the called operation returns v / raises e, having received reply r
Returns(v, r) ==
    /\ invoked' = [invoked EXCEPT !.state = "returned", !.value = v,
                                  !.replies = Append(@, r)]
    /\ pc' = "called"

Raises(e, r) ==
    /\ invoked' = [invoked EXCEPT !.state = "raised", !.exc = e,
                                  !.replies = Append(@, r)]
    /\ pc' = "called"

\* what a direct call leaves alone: everything of check_availability
checkVars == <<settings, dry_run, target_date, browserVars, steps, pending,
               retval, availability, captchaVars, navVars, alerts, result,
               raised, mainVars>>

\* captcha.py report_bad, lines 137-152: the request is not followed by
\* raise_for_status, and nothing is caught
ReportReplies ==
    FailedReplies \cup
    {Reply("ok", 1, TRUE, "OK_REPORT_RECORDED"),
     Reply("ok", 0, TRUE, "ERROR_WRONG_CAPTCHA_ID")}

ReportBad ==
    /\ pc = "report_bad"
    /\ requests' = Append(requests, Request("reportbad", invoked.arg))
    /\ \E r \in ReportReplies :
        IF TransportFailure(r) # NoExc
        THEN Raises(TransportFailure(r), r)
        ELSE Returns("None", r)
    /\ UNCHANGED checkVars

\* notifier.py lines 69-76: the message of send_availability_alert
AlertText(available_dates, ticket_type) ==
    [title |-> "Alhambra Ticket Alert", lines |-> DatesLines(available_dates),
     ticket_type |-> ticket_type, parse_mode |-> "Markdown"]

\* notifier.py lines 91-94: the message of send_error_alert
ErrorAlertText(error_message) ==
    [title |-> "Alhambra Checker Error", lines |-> <<error_message>>,
     ticket_type |-> "", parse_mode |-> "Markdown"]

\* notifier.py line 162: the message of test_connection
TestMessage ==
    [title |-> "AlhamBreaker connection test", lines |-> <<>>,
     ticket_type |-> "", parse_mode |-> "none"]

\* notifier.py send_availability_alert, lines 38-80
SendAvailabilityAlert ==
    /\ pc = "send_availability_alert"
    /\ requests' = Append(requests,
                          Request("sendMessage",
                                  AlertText(invoked.arg, TicketType)))
    /\ \E api \in ApiReplies :
        LET e == SendMessageOutcome(api)
        IN  IF e = NoExc THEN Returns("None", api) ELSE Raises(e, api)
    /\ UNCHANGED checkVars

\* notifier.py send_error_alert, lines 82-97
SendErrorAlert ==
    /\ pc = "send_error_alert"
    /\ requests' = Append(requests,
                          Request("sendMessage", ErrorAlertText(invoked.arg)))
    /\ \E api \in ApiReplies :
        LET e == SendMessageOutcome(api)
        IN  IF e = NoExc THEN Returns("None", api) ELSE Raises(e, api)
    /\ UNCHANGED checkVars

\* variant: the identity check looks at the body's ok flag only
IdentityOutcomeBodyOnly(r) ==
    IF TransportFailure(r) # NoExc
    THEN [kind |-> "raise", exc |-> TransportFailure(r)]
    ELSE IF JsonFailure(r) # NoExc
         THEN [kind |-> "raise", exc |-> JsonFailure(r)]
         ELSE IF ~r.ok THEN [kind |-> "false", exc |-> NoExc]
              ELSE [kind |-> "proceed", exc |-> NoExc]

\* test_connection, lines 153-156: the getMe request and the test
\* status_code == 200 and json().get("ok", False)
IdentityOutcome(r) ==
    IF TransportFailure(r) # NoExc
    THEN [kind |-> "raise", exc |-> TransportFailure(r)]
    ELSE IF r.code # 200 THEN [kind |-> "false", exc |-> NoExc]
         ELSE IF JsonFailure(r) # NoExc
              THEN [kind |-> "raise", exc |-> JsonFailure(r)]
              ELSE IF ~r.ok THEN [kind |-> "false", exc |-> NoExc]
                   ELSE [kind |-> "proceed", exc |-> NoExc]

\* test_connection, lines 153-160
TestConnection ==
    /\ pc = "test_connection"
    /\ requests' = Append(requests, Request("getMe", <<>>))
    /\ \E r \in ApiReplies :
        LET o == IdentityOutcome(r)
        IN  CASE o.kind = "raise" -> Raises(o.exc, r)
              [] o.kind = "false" -> Returns(FALSE, r)
              [] OTHER ->
                   /\ pc' = "test_connection_send"
                   /\ invoked' = [invoked EXCEPT !.replies = Append(@, r)]
    /\ UNCHANGED checkVars

\* test_connection, lines 162-169: only NotificationError is caught
TestConnectionSend ==
    /\ pc = "test_connection_send"
    /\ requests' = Append(requests, Request("sendMessage", TestMessage))
    /\ \E api \in ApiReplies :
        LET e == SendMessageOutcome(api)
        IN  IF e = NoExc THEN Returns(TRUE, api)
            ELSE IF e.type = "NotificationError" THEN Returns(FALSE, api)
                 ELSE Raises(e, api)
    /\ UNCHANGED checkVars

\* d.strip()
Strip(item) == [item EXCEPT !.padded = FALSE]

\* date.fromisoformat accepts the bare text of a date only
IsIsoFormat(item) == item.iso /\ ~item.padded

FromIsoFormat(item) == MkDate(item.year, item.month, item.day)

\* config.py target_dates, lines 35-38
target_dates(target_dates_str) ==
    [i \in 1..Len(target_dates_str) |->
        FromIsoFormat(Strip(target_dates_str[i]))]

\* Settings(): the validator of lines 40-49 runs on the parsed dates; the
\* exception raised (NoExc if none) and the Settings object
SettingsOutcome(target_dates_str) ==
    IF \E i \in 1..Len(target_dates_str) :
           ~IsIsoFormat(Strip(target_dates_str[i]))
    THEN [exc |-> Exc("ValueError", <<"Invalid isoformat string">>),
          value |-> NoSettings]
    ELSE IF ~validate_same_month(target_dates(target_dates_str))
         THEN [exc |-> Exc("ValueError",
                           <<"All target dates must be in the same month">>),
               value |-> NoSettings]
         ELSE [exc |-> NoExc,
               value |-> [has_target_date |-> FALSE, headless |-> TRUE,
                          target_dates |-> target_dates(target_dates_str)]]

ConstructSettings ==
    /\ pc = "Settings"
    /\ LET o == SettingsOutcome(invoked.arg)
       IN  invoked' = IF o.exc = NoExc
                      THEN [invoked EXCEPT !.state = "returned",
                                           !.value = o.value]
                      ELSE [invoked EXCEPT !.state = "raised",
                                           !.exc = o.exc]
    /\ pc' = "called"
    /\ UNCHANGED <<checkVars, requests>>

\* ------------------------------------------------------- specification
Next ==
    \/ ReadTargetDate
    \/ AEnterStart
    \/ AEnterLaunch
    \/ AEnterNewPage
    \/ NavigateToPurchasePage
    \/ AcceptCookies
    \/ GetPageUrl
    \/ SubmitTask
    \/ PollWarmUp
    \/ PollResult
    \/ PollTimeout
    \/ InjectCaptchaToken
    \/ ClickGoToStep1
    \/ NavigateToMonth
    \/ NavigateExhausted
    \/ CheckDateAvailability
    \/ SendNotification
    \/ SkipNotification
    \/ AExitClose
    \/ AExitStop
    \/ Return
    \/ Handle

Spec == Init /\ [][Next]_vars

\* browser.check_date_availability called for each requested date in
\* turn; an exception out of one call would end the sequence
InspectDates ==
    /\ pc = "check_dates"
    /\ LET i == Len(invoked.value) + 1
           last == i = Len(invoked.arg)
       IN  \E cell \in Cells :
            LET o == InspectOutcome(invoked.arg[i], cell)
            IN  IF o.exc # NoExc
                THEN /\ invoked' = [invoked EXCEPT
                                       !.replies = Append(@, cell),
                                       !.exc = o.exc,
                                       !.state = "raised"]
                     /\ pc' = "called"
                ELSE /\ invoked' =
                          [invoked EXCEPT
                              !.value = Append(@, o.value),
                              !.replies = Append(@, cell),
                              !.state = IF last THEN "returned"
                                        ELSE "running"]
                     /\ pc' = IF last THEN "called" ELSE pc
    /\ UNCHANGED <<checkVars, requests>>

\* captcha.py lines 22-32: the parameters of CaptchaSolver.__init__ next
\* to api_key
SolverParams == {"timeout", "poll_interval"}

KwValue(kwargs, name, default) ==
    IF \E k \in kwargs : k.name = name
    THEN (CHOOSE k \in kwargs : k.name = name).value
    ELSE default

\* CaptchaSolver(api_key, **kwargs): the exception raised (NoExc if none)
\* and the attributes the object stores
NewCaptchaSolver(kwargs) ==
    IF \E k \in kwargs : k.name \notin SolverParams
    THEN [exc |-> Exc("TypeError",
                      <<"__init__() got an unexpected keyword argument ",
                        (CHOOSE k \in kwargs : k.name \notin SolverParams).name>>),
          value |-> CaptchaSolver]
    ELSE [exc |-> NoExc,
          value |-> [timeout |-> KwValue(kwargs, "timeout", SolverTimeout),
                     poll_interval |-> KwValue(kwargs, "poll_interval",
                                               PollInterval)]]

ConstructSolver ==
    /\ pc = "CaptchaSolver"
    /\ LET o == NewCaptchaSolver(invoked.arg)
       IN  invoked' = IF o.exc = NoExc
                      THEN [invoked EXCEPT !.state = "returned",
                                           !.value = o.value]
                      ELSE [invoked EXCEPT !.state = "raised",
                                           !.exc = o.exc]
    /\ pc' = "called"
    /\ UNCHANGED <<checkVars, requests>>

\* what a direct call of a browser operation leaves behind: the page's
\* behaviour b, the page calls made, and the exception if one left it
BrowserReturn(b, calls, e) ==
    /\ invoked' = [invoked EXCEPT
                      !.state = IF e = NoExc THEN "returned" ELSE "raised",
                      !.value = calls,
                      !.exc = e,
                      !.replies = Append(@, b)]
    /\ pc' = "called"

CallNavigateToPurchasePage ==
    /\ pc = "browser_call"
    /\ invoked.op = "navigate_to_purchase_page"
    /\ \E goto \in {"ok", "error"}, sel \in {"found", "timeout", "error"},
          idle \in {"ok", "timeout"} :
        BrowserReturn([goto |-> goto, sel |-> sel, idle |-> idle],
                      NavigateCalls(goto, sel, idle),
                      NavigateOutcome(goto, sel, idle))
    /\ UNCHANGED <<checkVars, requests>>

CallAcceptCookies ==
    /\ pc = "browser_call"
    /\ invoked.op = "accept_cookies"
    /\ \E visible \in {"visible", "hidden", "timeout", "error"},
          click \in {"ok", "timeout", "error"} :
        BrowserReturn([visible |-> visible, click |-> click],
                      AcceptCookiesCalls(visible, click),
                      AcceptCookiesOutcome(visible, click))
    /\ UNCHANGED <<checkVars, requests>>

CallInjectCaptchaToken ==
    /\ pc = "browser_call"
    /\ invoked.op = "inject_captcha_token"
    /\ LET o == InjectTimes(invoked.arg.times, invoked.arg.page, "token-1")
       IN  BrowserReturn(invoked.arg.page, o.page, o.exc)
    /\ UNCHANGED <<checkVars, requests>>

\* the component operations, each called on its own
ApiNext ==
    \/ SubmitTask
    \/ PollWarmUp
    \/ PollResult
    \/ PollTimeout
    \/ ReportBad
    \/ SendAvailabilityAlert
    \/ SendErrorAlert
    \/ TestConnection
    \/ TestConnectionSend
    \/ ConstructSettings
    \/ NavigateToMonth
    \/ NavigateExhausted
    \/ InspectDates
    \/ ConstructSolver
    \/ CallNavigateToPurchasePage
    \/ CallAcceptCookies
    \/ CallInjectCaptchaToken

ApiSpec == ApiInit /\ [][ApiNext]_vars

\* ------------------------------------------------- __main__.py, the CLI
\* the Settings instances get_settings() may have built from the
\* environment: with or without HEADLESS=false, one date configured
CachedSettings ==
    {[c EXCEPT !.headless = h] :
        c \in {x \in Settings \cup SingleDateSettings :
                   x.target_dates = <<MkDate(TargetYear, TargetMonth, 1)>>},
        h \in BOOLEAN}

CommandLines ==
    {Args(dry, test, visible) : dry \in BOOLEAN, test \in BOOLEAN,
                                visible \in BOOLEAN}

\* settings.model_copy(update={"headless": False})
ModelCopy(c) == [c EXCEPT !.headless = FALSE]

\* variant: the flag is written into the instance get_settings() returned
OverrideHeadlessInPlace(c, visible) ==
    IF visible THEN [settings |-> ModelCopy(c), cached |-> ModelCopy(c)]
    ELSE [settings |-> c, cached |-> c]

\* async_main lines 68-72: the local settings and the cached instance
OverrideHeadless(c, visible) ==
    IF visible THEN [settings |-> ModelCopy(c), cached |-> c]
    ELSE [settings |-> c, cached |-> c]

\* bool(result.error): None and the empty string are false
Truthy(s) == ~s.none /\ \E i \in 1..Len(s.text) : s.text[i] # ""

MainInit ==
    /\ cached \in CachedSettings
    /\ args \in CommandLines
    /\ pc = "main"
    /\ settings = NoSettings
    /\ dry_run = FALSE
    /\ target_date = NoDate
    /\ playwright = "none"
    /\ browser = "none"
    /\ page = "none"
    /\ opens = 0
    /\ steps = <<>>
    /\ pending = NoExc
    /\ retval = NoResult
    /\ availability = NoAvailability
    /\ solver = CaptchaSolver
    /\ task_id = ""
    /\ elapsed = 0
    /\ polls = 0
    /\ captcha_token = ""
    /\ calendar = MkMonth(MonthIndex(TargetYear, TargetMonth))
    /\ attempt = 0
    /\ clicks = 0
    /\ alerts = <<>>
    /\ result = NoResult
    /\ raised = NoExc
    /\ service = NoService
    /\ invoked = NoCall
    /\ requests = <<>>
    /\ shown = NoShown
    /\ exit_code = NoExit
    /\ interrupted = FALSE
    /\ other = NoFrame

\* async_main lines 68-78: get_settings(), the --no-headless override,
\* AlhambraChecker(settings), and the branch on --test-telegram
AsyncMainStart ==
    /\ pc = "main"
    /\ LET o == OverrideHeadless(cached, args.no_headless)
       IN  /\ settings' = o.settings
           /\ cached' = o.cached
    /\ IF args.test_telegram
       THEN /\ invoked' = Call("test_connection", <<>>)
            /\ pc' = "test_connection"
       ELSE /\ invoked' = invoked
            /\ pc' = "log_target"
    /\ UNCHANGED <<dry_run, target_date, browserVars, steps, pending, retval,
                   availability, captchaVars, navVars, alerts, result,
                   raised, requests, args, exit_code, interrupted, other>>

\* async_main lines 87-90: settings.target_date is read for the log line
\* before check_availability(dry_run=args.dry_run) is called
LogTarget ==
    /\ pc = "log_target"
    /\ IF settings.has_target_date
       THEN /\ dry_run' = args.dry_run
            /\ pc' = "start"
            /\ raised' = raised
       ELSE /\ raised' = Exc("AttributeError",
                             <<"'Settings' object has no attribute ",
                               "target_date">>)
            /\ pc' = "done"
            /\ dry_run' = dry_run
    /\ UNCHANGED <<apiVars, settings, target_date, browserVars, steps,
                   pending, retval, availability, captchaVars, navVars,
                   alerts, result>>

\* async_main lines 93-105 and main lines 114-121: the exit code after
\* check_availability returned or an exception left async_main
ReportResult ==
    /\ pc = "done"
    /\ exit_code' = IF raised # NoExc THEN 1
                    ELSE IF Truthy(result.error) THEN 1 ELSE 0
    /\ pc' = "exited"
    /\ UNCHANGED <<invoked, requests, cached, args, interrupted, other,
                   settings,
                   dry_run, target_date, browserVars, steps, pending, retval,
                   availability, captchaVars, navVars, alerts, result,
                   raised>>

\* async_main lines 79-84 and main lines 114-121: the exit code after
\* checker.test_telegram()
TelegramResult ==
    /\ pc = "called"
    /\ exit_code' = IF invoked.state = "returned" /\ invoked.value = TRUE
                    THEN 0 ELSE 1
    /\ pc' = "exited"
    /\ UNCHANGED <<invoked, requests, cached, args, interrupted, other,
                   settings,
                   dry_run, target_date, browserVars, steps, pending, retval,
                   availability, captchaVars, navVars, alerts, result,
                   raised>>

\* main lines 116-118: a KeyboardInterrupt anywhere inside the try
Interrupt ==
    /\ pc # "exited"
    /\ exit_code' = 130
    /\ interrupted' = TRUE
    /\ pc' = "exited"
    /\ UNCHANGED <<invoked, requests, cached, args, other, settings, dry_run,
                   target_date, browserVars, steps, pending, retval,
                   availability, captchaVars, navVars, alerts, result,
                   raised>>

MainNext ==
    \/ AsyncMainStart
    \/ LogTarget
    \/ ReportResult
    \/ TelegramResult
    \/ Interrupt
    \/ TestConnection
    \/ TestConnectionSend
    \/ Next

MainSpec == MainInit /\ [][MainNext]_vars

\* ------------------------- two check_availability calls on one checker
\* What one invocation of check_availability owns: its arguments and
\* local variables (checker.py lines 53-96), the AlhambraBrowser it
\* constructs at line 57 with that object's fields, and the locals of
\* solve_recaptcha, _submit_task and _poll_result (captcha.py 47-135).
\* The checker's settings, solver and notifier are shared; their fields
\* are assigned in the constructors only.
Locals(id) ==
    [id |-> id, pc |-> pc, dry_run |-> dry_run, target_date |-> target_date,
     playwright |-> playwright, browser |-> browser, page |-> page,
     opens |-> opens, steps |-> steps, pending |-> pending,
     retval |-> retval, availability |-> availability, task_id |-> task_id,
     elapsed |-> elapsed, polls |-> polls, captcha_token |-> captcha_token,
     service |-> service, calendar |-> calendar, attempt |-> attempt,
     clicks |-> clicks, shown |-> shown, result |-> result,
     raised |-> raised]

\* an invocation that has not started
StartFrame(id, dry) ==
    [id |-> id, pc |-> "start", dry_run |-> dry, target_date |-> NoDate,
     playwright |-> "none", browser |-> "none", page |-> "none",
     opens |-> 0, steps |-> <<>>, pending |-> NoExc, retval |-> NoResult,
     availability |-> NoAvailability, task_id |-> "", elapsed |-> 0,
     polls |-> 0, captcha_token |-> "", service |-> NoService,
     calendar |-> MkMonth(MonthIndex(TargetYear, TargetMonth)),
     attempt |-> 0, clicks |-> 0, shown |-> NoShown, result |-> NoResult,
     raised |-> NoExc]

\* variant: the task id and the elapsed counter are kept on the solver
\* object, which the two invocations share
ResumeWithSolverState(saved, current) ==
    [saved EXCEPT !.task_id = current.task_id, !.elapsed = current.elapsed]

\* the event loop resumes the suspended invocation with its own frame
Resume(saved, current) == saved

PairInit ==
    /\ settings \in {c \in Settings \cup SingleDateSettings :
                        c.target_dates = <<MkDate(TargetYear, TargetMonth, 1)>>}
    /\ dry_run \in BOOLEAN
    /\ \E dry \in BOOLEAN : other = StartFrame(2, dry)
    /\ pc = "start"
    /\ target_date = NoDate
    /\ playwright = "none"
    /\ browser = "none"
    /\ page = "none"
    /\ opens = 0
    /\ steps = <<>>
    /\ pending = NoExc
    /\ retval = NoResult
    /\ availability = NoAvailability
    /\ solver = CaptchaSolver
    /\ task_id = ""
    /\ elapsed = 0
    /\ polls = 0
    /\ captcha_token = ""
    /\ calendar = MkMonth(MonthIndex(TargetYear, TargetMonth))
    /\ attempt = 0
    /\ clicks = 0
    /\ alerts = <<>>
    /\ result = NoResult
    /\ raised = NoExc
    /\ service = NoService
    /\ invoked = NoCall
    /\ requests = <<>>
    /\ shown = NoShown
    /\ cached = NoSettings
    /\ args = NoArgs
    /\ exit_code = NoExit
    /\ interrupted = FALSE

\* an await of the running invocation lets the event loop run the other
\* one, unless that one has returned
Switch ==
    /\ other.pc # "done"
    /\ LET me == Locals(3 - other.id)
           f == Resume(other, me)
       IN  /\ other' = me
           /\ pc' = f.pc
           /\ dry_run' = f.dry_run
           /\ target_date' = f.target_date
           /\ playwright' = f.playwright
           /\ browser' = f.browser
           /\ page' = f.page
           /\ opens' = f.opens
           /\ steps' = f.steps
           /\ pending' = f.pending
           /\ retval' = f.retval
           /\ availability' = f.availability
           /\ task_id' = f.task_id
           /\ elapsed' = f.elapsed
           /\ polls' = f.polls
           /\ captcha_token' = f.captcha_token
           /\ service' = f.service
           /\ calendar' = f.calendar
           /\ attempt' = f.attempt
           /\ clicks' = f.clicks
           /\ shown' = f.shown
           /\ result' = f.result
           /\ raised' = f.raised
    /\ UNCHANGED <<settings, solver, alerts, invoked, requests, cached, args,
                   exit_code, interrupted>>

\* the stages whose failures are followed when two invocations run: opening
\* the session and solving the captcha ("" is no failure)
PairStages == {"", "__aenter__", "solve_recaptcha", "send_notification"}

\* the steps of the running invocation; each of the two is followed for at
\* most MaxPairPolls "not ready" polls and MaxPairAttempts navigation
\* attempts, and through the failures of PairStages
PairStep ==
    /\ \/ ReadTargetDate
       \/ AEnterStart
       \/ AEnterLaunch
       \/ AEnterNewPage
       \/ NavigateToPurchasePage
       \/ AcceptCookies
       \/ GetPageUrl
       \/ SubmitTask
       \/ PollWarmUp
       \/ PollResult
       \/ InjectCaptchaToken
       \/ ClickGoToStep1
       \/ NavigateToMonth
       \/ CheckDateAvailability
       \/ SendNotification
       \/ SkipNotification
       \/ AExitClose
       \/ AExitStop
       \/ Return
       \/ Handle
    /\ service'.not_ready <= MaxPairPolls
    /\ attempt' <= MaxPairAttempts
    /\ pending'.stage \in PairStages

PairNext == PairStep \/ Switch

PairSpec == PairInit /\ [][PairNext]_vars

\* solve_recaptcha against a service that answers every poll "not ready".
\* The coroutine is awaited to completion: a step that can be taken is taken.
SolveInit == ApiInit /\ invoked.op = "solve_recaptcha"

PollNotReady == PollReply(NotReady)

NotReadyNext ==
    \/ SubmitTask
    \/ PollWarmUp
    \/ PollNotReady
    \/ PollTimeout

NotReadySpec == SolveInit /\ [][NotReadyNext]_vars /\ WF_vars(NotReadyNext)

TypeOK ==
    /\ pc \in {"start", "aenter_start", "aenter_launch", "aenter_new_page",
               "navigate_to_purchase_page", "accept_cookies", "get_page_url",
               "solve_recaptcha", "poll_warmup", "poll_loop",
               "inject_captcha_token", "click_go_to_step1",
               "navigate_to_month", "check_date_availability", "notify",
               "aexit_close", "aexit_stop", "return", "handle", "done",
               "report_bad", "send_availability_alert", "send_error_alert",
               "test_connection", "test_connection_send", "Settings",
               "check_dates", "CaptchaSolver", "called", "main",
               "log_target", "exited", "browser_call"}
    /\ attempt \in 0..MaxAttempts

\* ------------------------------------------------------------- claims
Finished == pc = "done"

Returned == pc = "done" /\ raised = NoExc

Failed == Returned /\ ~result.error.none

Succeeded == Returned /\ result.error.none

Sellable == {"available", "last_tickets"}

IsPrefix(s, t) == Len(s) <= Len(t) /\ \A i \in 1..Len(s) : s[i] = t[i]

Pipeline ==
    <<"navigate_to_purchase_page", "accept_cookies", "get_page_url",
      "solve_recaptcha", "inject_captcha_token", "click_go_to_step1",
      "navigate_to_month", "check_date_availability", "send_notification">>

\* C1: a CheckResult returned with error set has notification_sent false,
\* is_available false and status Unknown, whichever step failed, also when
\* the scrape had already found tickets.
C1_ErrorResultCarriesNoData ==
    Failed =>
        /\ result.notification_sent = FALSE
        /\ result.is_available = FALSE
        /\ result.status = "unknown"

\* C1 witness: a check that failed after the scrape found tickets.
C1_FailedAfterTicketsFound ==
    /\ Failed
    /\ availability.status \in Sellable
    /\ pending.stage \in {"send_notification", "__aexit__"}

\* C2: for every run (here: every run whose session release does not itself
\* raise), the returned notification_sent is true if and only if the scraped
\* date was Available or LastTickets and dry_run was false.
C2_NotificationSentIff ==
    (Returned /\ pending.stage # "__aexit__") =>
        (result.notification_sent
            <=> (availability.status \in Sellable /\ ~dry_run))

\* C3: a CheckResult returned without error has is_available true exactly
\* when the scraped status is Available or LastTickets, and what it reports
\* is the scraped date with its scraped status.
C3_IsAvailableMatchesScrape ==
    Succeeded =>
        /\ result.is_available <=> (availability.status \in Sellable)
        /\ result.status = availability.status
        /\ result.date = availability.date
        /\ result.is_available => result.status \in Sellable

\* C3 witness: a check without error that reports last tickets as available.
C3_LastTicketsReported ==
    /\ Succeeded
    /\ result.is_available
    /\ result.status = "last_tickets"

\* C4: check_availability never lets an exception escape; every failure ends
\* in a returned CheckResult.
C4_NoExceptionEscapes == Finished => raised = NoExc

\* C5: the error text names the failing stage: a failure of the captcha
\* step gives "Captcha error: <detail>", a failure to deliver the alert
\* gives "Notification error: <detail>", any other failure gives the bare
\* message.
C5_ErrorTextNamesStage ==
    Failed =>
        result.error.text =
            IF pending.stage = "solve_recaptcha"
            THEN <<"Captcha error: ">> \o pending.msg
            ELSE IF pending.stage = "send_notification"
                 THEN <<"Notification error: ">> \o pending.msg
                 ELSE pending.msg

\* C6: at most one session is opened per check, and a session that was
\* opened is closed and its driver stopped when check_availability returns,
\* on normal completion and after a failure of any pipeline step (the
\* release calls themselves not raising).
C6_SessionClosedOnReturn ==
    /\ opens <= 1
    /\ (steps # <<>>) => opens = 1
    /\ (Finished /\ opens = 1 /\ pending.stage # "__aexit__") =>
            /\ browser = "closed"
            /\ page = "closed"
            /\ playwright = "stopped"

\* C6 witness: a check that failed in a pipeline step and has released its
\* session.
C6_ClosedAfterStepFailure ==
    /\ Failed
    /\ pending.stage = "navigate_to_month"
    /\ browser = "closed"
    /\ playwright = "stopped"

\* C7: every resource the session acquired is released on every exit path,
\* also when opening fails partway and when closing the browser raises.
C7_AllResourcesReleased ==
    Finished =>
        /\ playwright \in {"none", "stopped"}
        /\ browser \in {"none", "closed"}
        /\ page \in {"none", "closed"}

\* C8: the steps of a check run at most once each and in the pipeline's
\* order, each only after every earlier step succeeded; once a step has
\* failed no further step runs, only the release of the session.
C8_StepsInOrderNoRetry ==
    /\ IsPrefix(steps, Pipeline)
    /\ pending # NoExc =>
            /\ pc \in {"aexit_close", "aexit_stop", "handle", "done"}
            /\ pending.stage \notin {"__aenter__", "__aexit__"} =>
                    pending.stage = steps[Len(steps)]

\* C8 witness: a check that ran the whole pipeline up to the alert.
C8_WholePipelineRan == Finished /\ steps = Pipeline

\* C9: when the scraped date is Available or LastTickets and dry_run is
\* false, exactly one alert is sent, it lists exactly that date with its
\* label, and the result has notification_sent true.
C9_OneAlertForAvailableDates ==
    (Returned /\ availability.status \in Sellable /\ ~dry_run
        /\ pending.stage \notin {"__aexit__"}) =>
        /\ Len(alerts) = 1
        /\ alerts[1] = <<[date |-> StrfTime(availability.date),
                          label |-> StatusText(availability.status)]>>
        /\ result.notification_sent

\* C10: a check none of whose steps fails returns one DateAvailability per
\* configured target date, in the configured order.
C10_OneResultPerConfiguredDate ==
    (Finished /\ pending = NoExc) =>
        /\ Succeeded
        /\ <<result.date>> = settings.target_dates

\* ------------------------------------- claims about the called components
Contains(msg, token) == \E i \in 1..Len(msg) : msg[i] = token

\* solve_recaptcha, called on its own, has raised / has returned
SolveRaised == invoked.op = "solve_recaptcha" /\ pc = "aexit_close"

SolveReturned == invoked.op = "solve_recaptcha" /\ pc = "inject_captcha_token"

SubmitRejected == service.submit.http = "ok" /\ service.submit.status # 1

\* C11: when the solver service rejects the submit request (status other
\* than 1), solve_recaptcha fails with a CaptchaError that contains the
\* service's reason, no poll request is issued and the warm-up delay is not
\* waited.
C11_RejectedSubmitStopsBeforePolling ==
    SubmitRejected =>
        /\ SolveRaised
        /\ pending.type = "CaptchaError"
        /\ service.submit.has_request =>
               Contains(pending.msg, service.submit.request)
        /\ polls = 0
        /\ service.poll = NoReply
        /\ elapsed = 0

\* C11 witness: a submit rejected with a reason has ended the solve.
C11_SubmitRejectedWithReason ==
    /\ SubmitRejected
    /\ service.submit.request = "ERROR_WRONG_USER_KEY"
    /\ SolveRaised

\* C12: after an accepted submit, when the service answers k polls "not
\* ready" and the next one with success before the ceiling is reached,
\* solve_recaptcha returns the token of that success answer, having issued
\* exactly k+1 poll requests, all for the submitted task id.
C12_TokenAfterKNotReadyPolls ==
    (SolveReturned /\ polls < MaxPolls) =>
        /\ service.submit.status = 1
        /\ service.poll.status = 1
        /\ captcha_token = service.poll.request
        /\ polls = service.not_ready + 1
        /\ service.polled = {service.submit.request}

\* C12 witness: the second poll succeeded after one "not ready" answer.
C12_SecondPollSucceeded ==
    /\ SolveReturned
    /\ service.not_ready = 1
    /\ polls = 2
    /\ captcha_token = "token-1"

\* a poll answer that is neither a success nor the "not ready" marker
PollRefused(r) ==
    /\ r.http = "ok"
    /\ r.status # 1
    /\ ~(r.has_request /\ r.request = "CAPCHA_NOT_READY")

\* C13: a poll answer that is neither success nor the "not ready" marker
\* ends the solve at once with a CaptchaError that contains the service's
\* reason, and the loop is only ever re-entered after the exact marker.
C13_RefusedPollEndsSolving ==
    /\ PollRefused(service.poll) =>
           /\ SolveRaised
           /\ pending.type = "CaptchaError"
           /\ pending.msg = <<"Captcha solving failed: ",
                              GetRequest(service.poll, "")>>
    /\ (pc = "poll_loop" /\ polls > 0) => service.poll = NotReady

\* C13 witness: the service refused after having answered "not ready", and
\* a misspelt marker counted as a refusal.
C13_RefusedAfterNotReady ==
    /\ SolveRaised
    /\ service.not_ready >= 1
    /\ service.poll.request = "CAPTCHA_NOT_READY"
    /\ polls = service.not_ready + 1

TimedOut ==
    /\ SolveRaised
    /\ pending = At(CaptchaError(<<"Captcha solving timed out after ",
                                   ToString(solver.timeout), "s">>),
                    "solve_recaptcha")

\* C14: when the service keeps answering "not ready", solve_recaptcha ends
\* with the "timed out after Ns" CaptchaError, whatever timeout and poll
\* interval are configured, a poll interval of 0 included.
C14_NotReadyAlwaysTimesOut == (pc = "poll_warmup") ~> TimedOut

Called(op) == invoked.op = op /\ pc = "called"

\* C15: report_bad returns normally whatever becomes of the report request,
\* a transport error or an error response included.
C15_ReportBadReturnsNormally ==
    Called("report_bad") => invoked.state = "returned"

\* the messaging API has reported: a response with an error status, or one
\* with a JSON body
ApiReported(api) == api.http = "ok" /\ (api.code # 200 \/ api.json)

NonSuccess(api) == api.code # 200 \/ ~api.ok

\* C16: send_availability_alert and send_error_alert raise a
\* NotificationError with the API's description exactly when the messaging
\* API reports non-success (a status other than 200, whatever the body says,
\* or status 200 with a body whose ok flag is not true), and return normally
\* when it reports success.
C16_NotificationErrorIffNonSuccess ==
    \A op \in {"send_availability_alert", "send_error_alert"} :
        (Called(op) /\ ApiReported(invoked.replies[1])) =>
            LET api == invoked.replies[1]
            IN  IF NonSuccess(api)
                THEN /\ invoked.state = "raised"
                     /\ invoked.exc.type = "NotificationError"
                     /\ (api.json /\ api.has_description) =>
                            Contains(invoked.exc.msg, api.description)
                ELSE invoked.state = "returned"

\* C16 witness: an alert was refused with status 400 although the body said
\* ok, and the error carries the description.
C16_RefusedAlthoughBodyOk ==
    /\ Called("send_availability_alert")
    /\ invoked.replies[1].http = "ok"
    /\ invoked.replies[1].code = 400
    /\ invoked.replies[1].ok
    /\ invoked.replies[1].has_description
    /\ invoked.state = "raised"

SendMessageRequests ==
    {i \in 1..Len(requests) : requests[i].endpoint = "sendMessage"}

\* the identity lookup was answered, and not with success
IdentityRefused(r) == r.http = "ok" /\ (r.code # 200 \/ (r.json /\ ~r.ok))

\* C17: when the identity lookup fails (a status other than 200, or a body
\* that is not ok), test_connection returns false and sends no message.
C17_NoSendAfterFailedLookup ==
    (invoked.op = "test_connection" /\ Len(invoked.replies) >= 1
        /\ IdentityRefused(invoked.replies[1])) =>
        /\ pc = "called"
        /\ invoked.state = "returned"
        /\ invoked.value = FALSE
        /\ SendMessageRequests = {}

\* C17 witness: the lookup was answered 400 with a body that said ok.
C17_LookupRefusedAlthoughBodyOk ==
    /\ Called("test_connection")
    /\ invoked.replies[1].http = "ok"
    /\ invoked.replies[1].code = 400
    /\ invoked.replies[1].ok

\* C18: test_connection never raises; it returns true exactly when the
\* identity lookup succeeded and the test message was then delivered, and
\* false otherwise.
C18_TestConnectionNeverRaises ==
    Called("test_connection") =>
        /\ invoked.state = "returned"
        /\ invoked.value =
               (/\ Len(invoked.replies) = 2
                /\ IdentityOutcome(invoked.replies[1]).kind = "proceed"
                /\ SendMessageOutcome(invoked.replies[2]) = NoExc)

\* C19: send_availability_alert issues exactly one send-message request per
\* call, and its text lists every date of the given list exactly once, in
\* the given order, labelled "Available" for Available and "Last Tickets!"
\* for LastTickets.
C19_OneMessageListingEveryDate ==
    Called("send_availability_alert") =>
        /\ Len(requests) = 1
        /\ SendMessageRequests = {1}
        /\ LET lines == requests[1].body.lines
               given == invoked.arg
           IN  /\ Len(lines) = Len(given)
               /\ \A i \in 1..Len(given) :
                    /\ lines[i].date = StrfTime(given[i].date)
                    /\ given[i].status = "available" =>
                           lines[i].label = "Available"
                    /\ given[i].status = "last_tickets" =>
                           lines[i].label = "Last Tickets!"

\* C19 witness: an alert for two dates, the later one given first, one
\* Available and one LastTickets.
C19_TwoDatesLaterFirst ==
    /\ Called("send_availability_alert")
    /\ Len(invoked.arg) = 2
    /\ invoked.arg[1].date.day > invoked.arg[2].date.day
    /\ invoked.arg[1].status = "last_tickets"
    /\ invoked.arg[2].status = "available"

\* every item of TARGET_DATES is the text of a date
AllDates(raw) == \A i \in 1..Len(raw) : raw[i].iso

\* C20: constructing Settings fails whenever the configured dates do not
\* all share year and month (the same month number in different years
\* included), and otherwise succeeds with target_dates equal to the
\* configured dates in their configured order.
C20_SettingsIffOneMonth ==
    (Called("Settings") /\ AllDates(invoked.arg)) =>
        LET raw == invoked.arg
        IN  IF \E i, j \in 1..Len(raw) :
                   raw[i].year # raw[j].year \/ raw[i].month # raw[j].month
            THEN invoked.state = "raised"
            ELSE /\ invoked.state = "returned"
                 /\ Len(invoked.value.target_dates) = Len(raw)
                 /\ \A i \in 1..Len(raw) :
                      invoked.value.target_dates[i] =
                          MkDate(raw[i].year, raw[i].month, raw[i].day)

\* C20 witness: two dates of the same month number in different years were
\* refused.
C20_SameMonthNumberOtherYear ==
    /\ Called("Settings")
    /\ Len(invoked.arg) = 2
    /\ AllDates(invoked.arg)
    /\ invoked.arg[1].month = invoked.arg[2].month
    /\ invoked.arg[1].year # invoked.arg[2].year
    /\ invoked.state = "raised"

\* navigate_to_month, called on its own, has returned / has raised
NavCalled == invoked.op = "navigate_to_month"

NavReturned == NavCalled /\ pc = "check_date_availability"

NavRaised == NavCalled /\ pc = "aexit_close"

ClickedControl(events) ==
    Contains(events, "click_next") \/ Contains(events, "click_prev")

\* C22: navigate_to_month returns normally only when the month and year it
\* last read equal the target's; otherwise it stops after at most 12
\* attempts, so at most 12 clicks, and a loop that used up its 12 attempts
\* fails with the "Could not navigate" error.
C22_ReturnsOnlyAtTargetWithinTwelve ==
    NavCalled =>
        /\ attempt <= 12
        /\ clicks <= 12
        /\ NavReturned =>
               /\ shown.read = "ok"
               /\ shown.month.year = target_date.year
               /\ shown.month.month = target_date.month
        /\ attempt = 12 =>
               /\ pc \in {"navigate_to_month", "aexit_close"}
               /\ NavRaised =>
                      pending = At(Exc("RuntimeError",
                                       <<"Could not navigate to ",
                                         ToString(target_date.year), "-",
                                         ToString(target_date.month)>>),
                                   "navigate_to_month")

\* C22 witness: twelve clicks were made and the navigation then failed.
C22_ExhaustedAfterTwelveClicks ==
    NavRaised /\ attempt = 12 /\ clicks = 12

\* C29: in each attempt that read the displayed month, the next-month
\* control is clicked exactly when the target (year, month) is later than
\* the displayed one, the previous-month control exactly when it is
\* earlier, also across a year boundary, and nothing when they are equal.
C29_ClicksTowardsTarget ==
    (NavCalled /\ shown.read = "ok") =>
        LET t == MonthIndex(target_date.year, target_date.month)
            m == MonthIndex(shown.month.year, shown.month.month)
        IN  /\ (t > m) <=> Contains(shown.events, "click_next")
            /\ (t < m) <=> Contains(shown.events, "click_prev")

\* C29 witness: December of the year before the target's was displayed and
\* the next-month control was clicked.
C29_ForwardAcrossYearBoundary ==
    /\ NavCalled
    /\ shown.read = "ok"
    /\ shown.month.year < target_date.year
    /\ shown.month.month > target_date.month
    /\ Contains(shown.events, "click_next")

\* C30: after a navigation click the displayed month is read again only
\* when both the network-idle wait and the settle delay have completed.
C30_WaitsBetweenClickAndRead ==
    (NavCalled /\ pc = "navigate_to_month" /\ ClickedControl(shown.events)) =>
        \E i, j, k \in 1..Len(shown.events) :
            /\ shown.events[i] \in {"click_next", "click_prev"}
            /\ i < j /\ i < k
            /\ shown.events[j] = "networkidle"
            /\ shown.events[k] = "settle"
            /\ \A n \in (i + 1)..Len(shown.events) :
                   shown.events[n] # "read"

\* C30 witness: the loop goes on to read the month after a second click.
C30_ReadsAgainAfterClick ==
    /\ NavCalled
    /\ pc = "navigate_to_month"
    /\ clicks = 2
    /\ attempt < 12
    /\ ClickedControl(shown.events)

MonthsApart(a, b) ==
    IF MonthIndex(a.year, a.month) >= MonthIndex(b.year, b.month)
    THEN MonthIndex(a.year, a.month) - MonthIndex(b.year, b.month)
    ELSE MonthIndex(b.year, b.month) - MonthIndex(a.year, a.month)

\* C28: when every click moves the calendar one month in the clicked
\* direction and the displayed month is always readable, navigate_to_month
\* returns normally for every target 0 to 12 months away from the month
\* first displayed, forward or backward.
C28_ReachesTargetsWithinAYear ==
    (NavCalled /\ shown.ideal /\ pc # "navigate_to_month"
        /\ MonthsApart(invoked.arg.calendar, target_date) <= 12) =>
        NavReturned

InspectCalled == invoked.op = "check_date_availability"

\* reading the cell raised: the count() call, or get_attribute on a cell
\* that has a link
CellUnreadable(cell) ==
    cell.count = "error" \/ (cell.count = "1" /\ cell.class = "error")

\* C23: check_date_availability classifies a date by its calendar cell: a
\* day link gives Available, or LastTickets when the cell's class carries
\* the last-remaining marker, no link gives NotAvailable; has_link is true
\* exactly when the status is Available or LastTickets, and the date is the
\* requested date.
C23_ClassifiedByCell ==
    InspectCalled =>
        \A i \in 1..Len(invoked.value) :
            LET cell == invoked.replies[i]
                got == invoked.value[i]
            IN  /\ got.date = invoked.arg[i]
                /\ got.has_link <=> got.status \in {"available",
                                                    "last_tickets"}
                /\ ~CellUnreadable(cell) =>
                       got.status =
                           IF cell.count = "0" THEN "not_available"
                           ELSE IF cell.class \in {"last", "dia-Ultimo"}
                                THEN "last_tickets"
                                ELSE "available"

\* C23 witness: a date whose cell has the class dia-Ultimo was reported
\* LastTickets.
C23_UltimoCellIsLastTickets ==
    /\ InspectCalled
    /\ \E i \in 1..Len(invoked.value) :
           /\ invoked.replies[i].count = "1"
           /\ invoked.replies[i].class = "dia-Ultimo"
           /\ invoked.value[i].status = "last_tickets"

\* C24: an error while inspecting a calendar cell never leaves
\* check_date_availability: that date is reported Unknown with has_link
\* false, and the other requested dates are still inspected and reported.
C24_CellErrorsAbsorbed ==
    InspectCalled =>
        /\ invoked.state # "raised"
        /\ \A i \in 1..Len(invoked.value) :
               CellUnreadable(invoked.replies[i]) =>
                   /\ invoked.value[i].status = "unknown"
                   /\ ~invoked.value[i].has_link
        /\ pc = "called" =>
               /\ Len(invoked.value) = Len(invoked.arg)
               /\ \A i \in 1..Len(invoked.arg) :
                      invoked.value[i].date = invoked.arg[i]

\* C24 witness: the first date's cell could not be read and the second
\* date was reported Available.
C24_SecondDateReportedAfterError ==
    /\ InspectCalled
    /\ pc = "called"
    /\ Len(invoked.value) = 2
    /\ invoked.replies[1].count = "error"
    /\ invoked.value[1].status = "unknown"
    /\ invoked.value[2].status = "available"

\* C26: CaptchaSolver accepts and stores max_retries next to timeout and
\* poll_interval, and a solver built with only an API key has timeout 180,
\* poll_interval 5 and max_retries 3.
C26_SolverStoresRetryBound ==
    Called("CaptchaSolver") =>
        /\ invoked.state = "returned"
        /\ "max_retries" \in DOMAIN invoked.value
        /\ \A k \in invoked.arg : invoked.value[k.name] = k.value
        /\ invoked.arg = {} =>
               /\ invoked.value.timeout = 180
               /\ invoked.value.poll_interval = 5
               /\ invoked.value.max_retries = 3


\* C21: the Settings instance cached by get_settings() is never written
\* after construction.  async_main binds its local settings once: to the
\* cached instance, or under --no-headless to a copy that differs from it
\* in headless = false only.  No later step of the run, none of a check
\* included, writes to either.
C21_SettingsNeverMutated ==
    [][/\ cached' = cached
       /\ pc = "main" /\ pc' # "exited" =>
            settings' = IF args.no_headless
                        THEN [cached EXCEPT !.headless = FALSE]
                        ELSE cached
       /\ pc # "main" \/ pc' = "exited" => settings' = settings]_vars

\* a check ran to its end in a visible browser while the cached
\* instance still says headless
C21_VisibleRunKeepsCachedHeadless ==
    /\ pc = "exited"
    /\ ~interrupted
    /\ args.no_headless
    /\ cached.headless
    /\ ~settings.headless
    /\ settings.target_dates = cached.target_dates
    /\ Len(steps) > 0

Scraped == Contains(steps, "check_date_availability")

\* C27 as stated: whenever the returned CheckResult has error set, the run
\* scraped no date and sent no alert request.
C27_ErrorMeansNoScrapeNoAlert ==
    Failed => ~Scraped /\ alerts = <<>>

\* C27, amended: whenever the returned CheckResult has error set, the run
\* sent no alert request, and the error ended the pipeline at the step
\* that failed: a date was scraped only when the failure came later, in
\* the notify step or in the release of the session, and a failure of an
\* earlier step left nothing scraped.
C27_ErrorEndsPipelineAtFailingStep ==
    Failed =>
        /\ alerts = <<>>
        /\ Scraped => pending.stage \in {"send_notification", "__aexit__"}
        /\ ~Scraped => availability = NoAvailability
        /\ pending.stage \notin {"send_notification", "__aexit__"} =>
                ~Contains(steps, "send_notification")

\* a check whose scrape found no tickets and whose session release then
\* failed
C27_FailedReleasingAfterEmptyScrape ==
    /\ Failed
    /\ Scraped
    /\ availability.status = "not_available"
    /\ pending.stage = "__aexit__"

\* C31: an attempt in which the displayed month could not be read makes no
\* click and still uses up one of the 12 attempts: after N unreadable
\* reads at most 12 - N clicks are made, and when the month was never
\* readable navigate_to_month fails after exactly 12 reads and no click.
C31_UnreadableReadsUseAttempts ==
    NavCalled =>
        /\ shown.unreadable <= attempt
        /\ clicks <= 12 - shown.unreadable
        /\ shown.read = "none" /\ shown.reads > 0 =>
               ~ClickedControl(shown.events)
        /\ (NavRaised /\ shown.unreadable = shown.reads) =>
               /\ shown.reads = 12
               /\ clicks = 0
               /\ pending.type = "RuntimeError"

\* C31 witness: the month was unreadable in all twelve attempts and the
\* navigation failed.
C31_NeverReadableFailsAfterTwelveReads ==
    /\ NavRaised
    /\ shown.reads = 12
    /\ shown.unreadable = 12
    /\ clicks = 0

\* the page's behaviour in a direct call of a browser operation
Behaviour == invoked.replies[1]

\* C32: navigate_to_purchase_page does not fail when the proceed control
\* does not appear within its wait: the timeout is followed by a second
\* network-idle wait and the call returns when that wait completes; a
\* failure of the page load or of the second wait leaves the call as an
\* error.
C32_ProceedTimeoutAbsorbed ==
    (Called("navigate_to_purchase_page") /\ pc = "called") =>
        /\ Behaviour.goto # "ok" =>
               /\ invoked.state = "raised"
               /\ invoked.value = <<"goto">>
        /\ (Behaviour.goto = "ok" /\ Behaviour.sel = "timeout") =>
               /\ invoked.value = <<"goto", "wait_for_selector", "networkidle">>
               /\ invoked.state = "returned" <=> Behaviour.idle = "ok"
               /\ Behaviour.idle # "ok" =>
                      invoked.exc = PlaywrightTimeout("wait_for_load_state")
        /\ (Behaviour.goto = "ok" /\ Behaviour.sel = "found") =>
               /\ invoked.state = "returned"
               /\ ~Contains(invoked.value, "networkidle")

\* C32 witness: the control did not appear, the second wait completed and
\* the call returned.
C32_ReturnedAfterSecondWait ==
    /\ Called("navigate_to_purchase_page")
    /\ invoked.state = "returned"
    /\ Behaviour.sel = "timeout"
    /\ Contains(invoked.value, "networkidle")

\* C33: accept_cookies is best-effort: when the consent control is hidden
\* or does not become visible within its wait the call returns normally
\* without a click; the control is clicked at most once, and only when it
\* is visible.
C33_CookiesBestEffort ==
    (Called("accept_cookies") /\ pc = "called") =>
        /\ Behaviour.visible \in {"hidden", "timeout"} =>
               /\ invoked.state = "returned"
               /\ ~Contains(invoked.value, "click")
        /\ Contains(invoked.value, "click") => Behaviour.visible = "visible"
        /\ Cardinality({i \in 1..Len(invoked.value) :
                           invoked.value[i] = "click"}) <= 1

\* C33 witness: the wait for the consent control timed out and the call
\* returned.
C33_ReturnedWithoutConsentControl ==
    /\ Called("accept_cookies")
    /\ invoked.state = "returned"
    /\ Behaviour.visible = "timeout"
    /\ invoked.value = <<"is_visible">>

\* C34: inject_captcha_token is idempotent and silent on missing
\* integration points: the call raises nothing, whichever points are
\* absent and whichever throw; every point that is present and does not
\* throw holds the token afterwards; and injecting the token twice leaves
\* the page as injecting it once does.
C34_InjectionIsolatedAndIdempotent ==
    Called("inject_captcha_token") =>
        /\ invoked.state = "returned"
        /\ \A pt \in PointNames :
               invoked.arg.page[pt].kind = "present" =>
                   invoked.value[pt].value = "token-1"
        /\ invoked.value = InjectFrom(1, invoked.arg.page, "token-1").page

\* C35: whenever an alert request was accepted by the messaging API during
\* a check, the CheckResult returned for that check has notification_sent
\* true and no error, also when closing the browser session failed after
\* the send.
C35_AcceptedAlertIsReported ==
    (Returned /\ alerts # <<>>) =>
        /\ result.notification_sent
        /\ result.error.none

\* C35's case: a check during which an alert request was accepted.  The
\* call of send_availability_alert does not bind (checker.py line 151
\* against notifier.py line 38), so no check reaches it.
C35_AlertAccepted == alerts # <<>>

\* C36: a date whose cell could not be read, status Unknown, does not fail
\* the check and never triggers an alert: the notify step sends nothing,
\* and unless something else fails the returned CheckResult has error
\* unset, status Unknown, is_available false and notification_sent false.
C36_UnknownIsNotAnError ==
    (Scraped /\ availability.status = "unknown") =>
        /\ ~Contains(steps, "send_notification")
        /\ alerts = <<>>
        /\ pending.stage # "check_date_availability"
        /\ (Returned /\ pending = NoExc) =>
               /\ result.error.none
               /\ result.status = "unknown"
               /\ ~result.is_available
               /\ ~result.notification_sent

\* C36 witness: a check returned status Unknown without an error.
C36_UnknownReturnedWithoutError ==
    /\ Succeeded
    /\ Scraped
    /\ result.status = "unknown"
    /\ result.error.none

\* the least integer not below a / b, for b > 0
CeilDiv(a, b) == (a + b - 1) \div b

\* C37: after a successful submit no poll is issued before the warm-up
\* delay of 10 s has passed, each "not ready" answer is followed by the
\* poll interval before the next poll, and with timeout T and poll
\* interval p > 0 at most ceil((T - 10) / p) polls are issued, all of them
\* when the solve times out; with T <= 10 the solve times out after the
\* warm-up without a poll.
C37_PollsBoundedByTimeout ==
    (invoked.op = "solve_recaptcha" /\ polls < MaxPolls) =>
        LET T == solver.timeout
            p == solver.poll_interval
        IN  /\ pc \in {"solve_recaptcha", "poll_warmup"} =>
                   polls = 0 /\ elapsed = 0
            /\ polls > 0 =>
                   /\ elapsed >= 10
                   /\ elapsed = 10 + service.not_ready * p
                   /\ polls <= service.not_ready + 1
            /\ (p > 0 /\ T > 10) =>
                   /\ polls <= CeilDiv(T - 10, p)
                   /\ TimedOut => polls = CeilDiv(T - 10, p)
            /\ (T <= 10 /\ service.submit.status = 1
                   /\ service.submit.has_request /\ SolveRaised) =>
                   /\ polls = 0
                   /\ elapsed = 10
                   /\ TimedOut

\* C37 witness: with the default timeout of 120 s and interval of 5 s the
\* solve timed out after 22 polls.
C37_TimedOutAfterTwentyTwoPolls ==
    /\ TimedOut
    /\ solver.timeout = 120
    /\ solver.poll_interval = 5
    /\ polls = 22
    /\ elapsed = 120

\* C38: every way solve_recaptcha can fail reaches its caller as a
\* CaptchaError: a rejected submission, a terminal poll answer, the
\* timeout, an HTTP error status or transport failure of the solver
\* service, and a success answer without the task id or token field.
C38_EverySolveFailureIsCaptchaError ==
    SolveRaised => pending.type = "CaptchaError"

\* what holds of the locals f of an invocation run alone: one session, opened
\* before any step and released at the return; the task id is the one its
\* own submit request was answered with, and the only one it polled; its
\* elapsed counter is the warm-up plus one interval per "not ready" answer
\* it received; its result is the one its own scrape and failure determine
Alone(f) ==
    /\ f.opens <= 1
    /\ (f.steps # <<>>) => f.opens = 1
    /\ (f.pc = "done" /\ f.opens = 1 /\ f.pending.stage # "__aexit__") =>
            /\ f.browser = "closed"
            /\ f.page = "closed"
            /\ f.playwright = "stopped"
    /\ (f.task_id # "") =>
            /\ f.service.submit.status = 1
            /\ f.service.submit.request = f.task_id
    /\ f.service.polled \subseteq {f.task_id}
    /\ (f.polls > 0) => f.service.polled = {f.service.submit.request}
    /\ (f.pc = "poll_loop" \/ f.polls > 0) =>
            f.elapsed = WarmUp + f.service.not_ready * solver.poll_interval
    /\ (f.pc = "done" /\ f.raised = NoExc) =>
            f.result =
                IF f.pending # NoExc
                THEN ErrorResult(f.target_date, f.pending)
                ELSE SuccessResult(f.target_date, f.availability,
                                   ShouldNotify(f.availability) /\ ~f.dry_run)

\* C39: two check_availability invocations interleaved on one checker do
\* not interfere: each has its own browser session, submits and polls its
\* own captcha task id with its own elapsed counter, the solver and the
\* settings are left as constructed, and each returns the result it
\* returns when run alone.
C39_InterleavedChecksDoNotInterfere ==
    (other.id # 0) =>
        /\ Alone(Locals(3 - other.id))
        /\ Alone(other)
        /\ solver = CaptchaSolver
        /\ settings.target_dates = <<MkDate(TargetYear, TargetMonth, 1)>>

\* C39 witness: both invocations are in their poll loops at once, each
\* with its session open, one having had a "not ready" answer and the
\* other none.
C39_BothPollingWithOwnCounters ==
    /\ other.id # 0
    /\ pc = "poll_loop"
    /\ other.pc = "poll_loop"
    /\ page = "open"
    /\ other.page = "open"
    /\ polls = 1
    /\ elapsed = WarmUp + solver.poll_interval
    /\ other.task_id # ""
    /\ other.elapsed = WarmUp

====
